---- MODULE Spec2Model ----
(***************************************************************************)
(* Model of the PhasePortrait engine: the RiemannSphere value type         *)
(* (RiemannSphere.py) and the sampling/caching pass of PhasePortrait       *)
(* (PhasePortrait.py) over its sqlite store (tables Z, Value, TMP).        *)
(*                                                                         *)
(* Scalars (Python int / Fraction / float) are exact rationals <<n, d>>    *)
(* with d > 0 in lowest terms; float('NaN') is <<0, 0>> and the SQL NULL   *)
(* is <<0, -1>>.                                                           *)
(***************************************************************************)
EXTENDS Integers, Naturals, Sequences, FiniteSets, TLC

VARIABLES
    function,        \* self.function: name of the supplied function
    requests,        \* the requests the caller may issue in this run
    left_below,      \* self.left_below  (<<real, imaginary>>)
    right_upper,     \* self.right_upper (<<real, imaginary>>)
    resolution,      \* self.resolution
    database,        \* self.database: "" or the store path
    size,            \* self.size
    liste_x,         \* self.liste_x
    liste_y,         \* self.liste_y
    values,          \* the dictionary pixel -> RiemannSphere built by compute
    to_compute,      \* compute's to_compute list
    nb_of_element,   \* compute's loop counter
    one_half_per_cent, \* compute's commit / progress granularity
    pc,              \* "idle", "loop", "done" (returned) or "aborted" (raised)
    called,          \* grid points at which self.function was invoked this pass
    passes,          \* number of passes started
    isfile,          \* os.path.isfile(store path)
    Z,               \* table Z as seen by the open connection (row Id = index)
    Value,           \* table Value as seen by the open connection
    disk,            \* committed content of the store: [Z |-> .., Value |-> ..]
    completed,       \* requests whose pass returned with persistence enabled
    lhs, rhs, op, result,  \* the arithmetic expression last evaluated
    steps,           \* number of operations chained so far
    img,             \* self.img: the pixel map of the image that draw built
    diagnostics,     \* the pixels and points that draw reported as holes
    writers          \* the passes of two processes that share one store

passVars == <<left_below, right_upper, resolution, database, size, liste_x,
              liste_y, values, to_compute, nb_of_element, one_half_per_cent,
              pc, called, passes, completed>>
storeVars == <<isfile, Z, Value, disk>>
arithVars == <<lhs, rhs, op, result, steps>>
drawVars == <<img, diagnostics>>
vars == <<function, requests, passVars, storeVars, arithVars, drawVars,
          writers>>

---------------------------------------------------------------------------
(* Bounds of the model *)

\* number of compute passes in one behaviour
MaxPasses == 2
\* mantissa width of the model's floating point numbers
FloatMantissa == 5
\* the largest finite floating point number of the model
FloatMax == 10000
\* largest component of the operands of the arithmetic expressions
MaxComponent == 2
\* the smallest positive floating point number of the model is
\* 1 / FloatMinDenominator
FloatMinDenominator == 16384
\* the functions of the math module are computed to 1 / MathPrecision
MathPrecision == 10000

\* the operations chained on one value after the first one, and the largest
\* numerator and denominator of the components of a value that is chained
MaxOps == 2
MaxChainNumerator == 8
MaxChainDenominator == 4

\* the largest numerator of an argument of approx
MaxApprox == 14

---------------------------------------------------------------------------
(* Exact rationals: fractions.Fraction, int, and exactly representable     *)
(* floats                                                                  *)

Abs(n) == IF n < 0 THEN -n ELSE n

NaN == <<0, 0>>
NULL == <<0, -1>>
isnan(q) == q = NaN
IsNumber(q) == q[2] > 0

RECURSIVE gcd(_, _)
gcd(a, b) == IF b = 0 THEN Abs(a) ELSE gcd(b, a % b)

\* Fraction(numerator, denominator) without the reduction to lowest terms
FractionUnreduced(n, d) == IF d < 0 THEN <<-n, -d>> ELSE <<n, d>>

\* Fraction(numerator, denominator): lowest terms, positive denominator
Fraction(n, d) ==
    LET g == gcd(n, d)
    IN  IF d < 0 THEN <<(-n) \div g, (-d) \div g>> ELSE <<n \div g, d \div g>>


numerator(q) == q[1]
denominator(q) == q[2]

FromInt(n) == <<n, 1>>
\* + - * on scalars; an operation with a NaN operand gives NaN
FAdd(p, q) ==
    IF ~IsNumber(p) \/ ~IsNumber(q) THEN NaN
    ELSE LET l == (p[2] \div gcd(p[2], q[2])) * q[2]
         IN  Fraction(p[1] * (l \div p[2]) + q[1] * (l \div q[2]), l)
FSub(p, q) ==
    IF ~IsNumber(p) \/ ~IsNumber(q) THEN NaN
    ELSE LET l == (p[2] \div gcd(p[2], q[2])) * q[2]
         IN  Fraction(p[1] * (l \div p[2]) - q[1] * (l \div q[2]), l)
FMul(p, q) ==
    IF ~IsNumber(p) \/ ~IsNumber(q) THEN NaN
    ELSE IF p[1] = 0 \/ q[1] = 0 THEN <<0, 1>>
    ELSE LET g == gcd(p[1], q[2])
             h == gcd(q[1], p[2])
         IN  Fraction((p[1] \div g) * (q[1] \div h),
                      (p[2] \div h) * (q[2] \div g))
FNeg(p) == IF ~IsNumber(p) THEN NaN ELSE <<-p[1], p[2]>>
FLess(p, q) == p[1] * q[2] < q[1] * p[2]
FLeq(p, q) == p[1] * q[2] <= q[1] * p[2]
\* p / q on scalars, q not zero
FDiv(p, q) ==
    IF ~IsNumber(p) \/ ~IsNumber(q) THEN NaN
    ELSE FMul(p, IF q[1] < 0 THEN <<-q[2], -q[1]>> ELSE <<q[2], q[1]>>)
FAbs(p) == IF ~IsNumber(p) THEN NaN ELSE <<Abs(p[1]), p[2]>>

\* int(q): truncation toward zero
int(q) == IF q[1] >= 0 THEN q[1] \div q[2] ELSE -((-q[1]) \div q[2])

RECURSIVE Pow2(_)
Pow2(k) == IF k = 0 THEN 1 ELSE 2 * Pow2(k - 1)

\* float(q): the nearest floating point number with FloatMantissa bits,
\* ties to even.  n/d is scaled by 2^e into [2^(P-1), 2^P) and rounded.
RECURSIVE FloatScale(_, _, _)
FloatScale(n, d, e) ==
    IF n \div d < Pow2(FloatMantissa - 1)
    THEN IF d % 2 = 0 THEN FloatScale(n, d \div 2, e + 1)
         ELSE FloatScale(2 * n, d, e + 1)
    ELSE IF n \div d >= Pow2(FloatMantissa) THEN FloatScale(n, 2 * d, e - 1)
    ELSE LET fl == n \div d
             rem2 == 2 * (n % d)
             m == IF rem2 > d \/ (rem2 = d /\ fl % 2 = 1) THEN fl + 1 ELSE fl
         IN  IF e >= 0 THEN Fraction(m, Pow2(e)) ELSE <<m * Pow2(-e), 1>>

\* a non-zero number so small that its conversion to float gives 0.0
underflows(q) ==
    IsNumber(q) /\ q[1] # 0 /\ Abs(q[1]) <= q[2] \div (2 * FloatMinDenominator)

\* a number (an int, a Fraction) too large to be converted to float:
\* the conversion raises OverflowError
overflows(q) ==
    IsNumber(q)
    /\ (Abs(q[1]) \div q[2] > FloatMax
        \/ (Abs(q[1]) \div q[2] = FloatMax /\ q[1] % q[2] # 0))

float(q) ==
    IF ~IsNumber(q) THEN NaN
    ELSE IF q[1] = 0 \/ underflows(q) THEN <<0, 1>>
    ELSE IF q[1] < 0 THEN FNeg(FloatScale(-q[1], q[2], 0))
    ELSE FloatScale(q[1], q[2], 0)

\* isinf(m) on the squared modulus: the value is beyond the floating range
isinf(m) == int(m) > FloatMax \/ (int(m) = FloatMax /\ m[1] % m[2] # 0)

---------------------------------------------------------------------------
(* The functions of the math module (sqrt, atan, exp, log, cos, sin) and   *)
(* pi, in fixed point arithmetic: a fixed point number k stands for        *)
(* k / MathPrecision.                                                      *)

\* the fixed point number of the decimal c / 10000
Decimal(c) == (c * MathPrecision) \div 10000

\* n / d with both terms small enough to be multiplied by MathPrecision
RECURSIVE Shrink(_, _)
Shrink(n, d) ==
    IF n > 100000 \/ d > 100000 THEN Shrink(n \div 2, d \div 2) ELSE <<n, d>>

\* n / d with one term at least small enough for that
RECURSIVE ShrinkBoth(_, _)
ShrinkBoth(n, d) ==
    IF n > 100000 /\ d > 100000 THEN ShrinkBoth(n \div 2, d \div 2)
    ELSE <<n, d>>

\* the fixed point number nearest below a scalar q >= 0
ToFixedPositive(q) ==
    LET ip == q[1] \div q[2]
        fp == Shrink(q[1] % q[2], q[2])
    IN  ip * MathPrecision
        + (IF fp[2] = 0 THEN 0 ELSE (fp[1] * MathPrecision) \div fp[2])

ToFixed(q) == IF q[1] < 0 THEN -ToFixedPositive(FNeg(q)) ELSE ToFixedPositive(q)

FromFixed(k) == Fraction(k, MathPrecision)

\* x * y on fixed point numbers
Times(x, y) == IF x * y >= 0 THEN (x * y) \div MathPrecision
               ELSE -((-(x * y)) \div MathPrecision)

pi == FromFixed(Decimal(31416))

\* atan on [-1, 1]:  x (0.9998660 - 0.3302995 x^2 + 0.1801410 x^4
\*                      - 0.0851330 x^6 + 0.0208351 x^8)
AtanPolynomial(x) ==
    LET x2 == Times(x, x)
    IN  Times(x, Decimal(9999) + Times(x2, Decimal(-3303)
              + Times(x2, Decimal(1801) + Times(x2, Decimal(-851)
              + Times(x2, Decimal(208))))))

\* math.atan
atan(t) ==
    IF FLeq(FAbs(t), <<1, 1>>) THEN FromFixed(AtanPolynomial(ToFixed(t)))
    ELSE LET inner == AtanPolynomial(ToFixed(FDiv(<<1, 1>>, t)))
         IN  IF t[1] > 0 THEN FromFixed(Decimal(15708) - inner)
             ELSE FromFixed(-Decimal(15708) - inner)

\* x = f * 2^k with 1 <= f < 2: the triple <<numerator, denominator, k>> of f
RECURSIVE Normalize2(_, _, _)
Normalize2(n, d, k) ==
    IF n < d THEN Normalize2(2 * n, d, k - 1)
    ELSE IF n >= 2 * d THEN Normalize2(n, 2 * d, k + 1)
    ELSE <<n, d, k>>

\* math.log of a scalar x > 0:  k ln 2 + 2 (y + y^3/3 + y^5/5 + y^7/7)
\* with y = (f - 1) / (f + 1)
log(x) ==
    LET s == ShrinkBoth(x[1], x[2])
        f == Normalize2(s[1], s[2], 0)
        g == Shrink(f[1], f[2])
        y == ((g[1] - g[2]) * MathPrecision) \div (g[1] + g[2])
        y2 == Times(y, y)
        y3 == Times(y, y2)
        y5 == Times(y3, y2)
        y7 == Times(y5, y2)
    IN  FromFixed(f[3] * Decimal(6931)
                  + 2 * (y + y3 \div 3 + y5 \div 5 + y7 \div 7))

\* x = f * 4^k with 1 <= f < 4
RECURSIVE Normalize4(_, _, _)
Normalize4(n, d, k) ==
    IF n < d THEN Normalize4(4 * n, d, k - 1)
    ELSE IF n >= 4 * d THEN Normalize4(n, 4 * d, k + 1)
    ELSE <<n, d, k>>

\* the largest r in lo..hi with r * r <= v  (IntegerSqrt), and the nearest
\* (NearestSqrt)
RECURSIVE IntegerSqrt(_, _, _)
IntegerSqrt(v, lo, hi) ==
    IF lo >= hi THEN lo
    ELSE LET mid == (lo + hi + 1) \div 2
         IN  IF mid * mid <= v THEN IntegerSqrt(v, mid, hi)
             ELSE IntegerSqrt(v, lo, mid - 1)

NearestSqrt(v, lo, hi) ==
    LET r == IntegerSqrt(v, lo, hi)
    IN  IF (r + 1) * (r + 1) - v < v - r * r THEN r + 1 ELSE r

\* math.sqrt of a scalar x >= 0; the square root of a number that underflows
\* is 0.0
sqrt(x) ==
    IF x[1] = 0 \/ underflows(x) THEN <<0, 1>>
    ELSE LET s == ShrinkBoth(x[1], x[2])
             f == Normalize4(s[1], s[2], 0)
             g == Shrink(f[1], f[2])
             v == ((g[1] * MathPrecision) \div g[2]) * MathPrecision
             r == NearestSqrt(v, MathPrecision, 2 * MathPrecision)
         IN  IF f[3] >= 0 THEN Fraction(r * Pow2(f[3]), MathPrecision)
             ELSE FDiv(FromFixed(r), <<Pow2(-f[3]), 1>>)

\* e^r for a fixed point r in [0, ln 2): the series to r^7 / 7!
ExpSeries(r) ==
    LET t1 == r
        t2 == Times(t1, r) \div 2
        t3 == Times(t2, r) \div 3
        t4 == Times(t3, r) \div 4
        t5 == Times(t4, r) \div 5
        t6 == Times(t5, r) \div 6
        t7 == Times(t6, r) \div 7
    IN  MathPrecision + t1 + t2 + t3 + t4 + t5 + t6 + t7

\* math.exp of a scalar x that does not overflow:  2^k e^r  with
\* x = k ln 2 + r; the result underflows to 0.0 when it is smaller than the
\* smallest positive floating point number
exp(x) ==
    LET X == ToFixed(x)
        k == X \div Decimal(6931)
        e == ExpSeries(X - k * Decimal(6931))
    IN  IF k >= 0 THEN Fraction(e * Pow2(k), MathPrecision)
        ELSE IF k < -30 \/ Pow2(-k) > FloatMinDenominator THEN <<0, 1>>
        ELSE FDiv(Fraction(e \div 16, MathPrecision \div 16), <<Pow2(-k), 1>>)

\* the angle x brought into [-pi, pi)
ReduceAngle(x) ==
    LET r == x % Decimal(62832)
    IN  IF r >= Decimal(31416) THEN r - Decimal(62832) ELSE r

\* cos on [-pi/2, pi/2]:  1 - x^2/2 (1 - x^2/12 (1 - x^2/30 (1 - x^2/56)))
CosSeries(x) ==
    LET x2 == Times(x, x)
        one == MathPrecision
    IN  one - Times(x2 \div 2, one - Times(x2 \div 12,
              one - Times(x2 \div 30, one - x2 \div 56)))

\* sin on [-pi/2, pi/2]:  x (1 - x^2/6 (1 - x^2/20 (1 - x^2/42 (1 - x^2/72))))
SinSeries(x) ==
    LET x2 == Times(x, x)
        one == MathPrecision
    IN  Times(x, one - Times(x2 \div 6, one - Times(x2 \div 20,
              one - Times(x2 \div 42, one - x2 \div 72))))

\* math.cos
cos(x) ==
    LET r == ReduceAngle(ToFixed(x))
    IN  IF r > Decimal(15708) THEN FromFixed(-CosSeries(Decimal(31416) - r))
        ELSE IF r < -Decimal(15708)
        THEN FromFixed(-CosSeries(Decimal(31416) + r))
        ELSE FromFixed(CosSeries(r))

\* math.sin
sin(x) ==
    LET r == ReduceAngle(ToFixed(x))
    IN  IF r > Decimal(15708) THEN FromFixed(SinSeries(Decimal(31416) - r))
        ELSE IF r < -Decimal(15708)
        THEN FromFixed(-SinSeries(Decimal(31416) + r))
        ELSE FromFixed(SinSeries(r))

---------------------------------------------------------------------------
(* RiemannSphere.py: the value type                                        *)

\* a component that is neither int, float nor Fraction (a str, a complex)
NonNumeric == <<1, -1>>
isnumeric(c) == c # NonNumeric /\ c # NULL

\* the outcome of a call: the value returned, or the exception raised
NoValue == [real |-> NULL, imaginary |-> NULL, infinite |-> FALSE]
Return(v) == [exc |-> "", val |-> v]
Raise(e) == [exc |-> e, val |-> NoValue]

\* INFTY = RiemannSphere(float('NaN'), float('NaN'), infinite=True)
INFTY == [real |-> NaN, imaginary |-> NaN, infinite |-> TRUE]

\* math.isnan(x) as __init__ calls it: TypeError for an argument that is not
\* a real number, OverflowError for one too large for a float
isnan_call(x) ==
    IF ~isnumeric(x) THEN "TypeError"
    ELSE IF overflows(x) THEN "OverflowError"
    ELSE ""

\* __init__ with the infinite flag set, testing the types of both
\* components before their values
InitInfiniteTypesFirst(real, imaginary) ==
    IF ~isnumeric(real) \/ ~isnumeric(imaginary) THEN Raise("TypeError")
    ELSE IF overflows(real) \/ overflows(imaginary)
         THEN Raise("OverflowError")
    ELSE IF ~isnan(real) \/ ~isnan(imaginary) THEN Raise("ValueError")
    ELSE Return([real |-> NaN, imaginary |-> NaN, infinite |-> TRUE])

\* __init__ with the infinite flag set:
\*   if not isnan(real) or not isnan(imaginary): raise ValueError
InitInfinite(real, imaginary) ==
    IF isnan_call(real) # "" THEN Raise(isnan_call(real))
    ELSE IF ~isnan(real) THEN Raise("ValueError")
    ELSE IF isnan_call(imaginary) # "" THEN Raise(isnan_call(imaginary))
    ELSE IF ~isnan(imaginary) THEN Raise("ValueError")
    ELSE Return([real |-> NaN, imaginary |-> NaN, infinite |-> TRUE])

\* m = real**2 + imaginary**2 raises OverflowError or isinf(m) holds.  The
\* integer parts of the components decide it when they can: m is beyond
\* the floating range when their squares already are, and within it when
\* the squares of the next integers are.
too_big_modulus(real, imaginary) ==
    LET a == int(FAbs(real))
        b == int(FAbs(imaginary))
    IN  IF a * a + b * b > FloatMax THEN TRUE
        ELSE IF (a + 1) * (a + 1) + (b + 1) * (b + 1) <= FloatMax THEN FALSE
        ELSE isinf(FAdd(FMul(real, real), FMul(imaginary, imaginary)))

\* __init__ with the infinite flag not set, keeping the components of a
\* value whose modulus is too big
InitFiniteKeepingComponents(real, imaginary) ==
    IF ~isnumeric(real) \/ ~isnumeric(imaginary) THEN Raise("TypeError")
    ELSE IF isnan_call(real) # "" THEN Raise(isnan_call(real))
    ELSE IF isnan(real) THEN Raise("ValueError")
    ELSE IF isnan_call(imaginary) # "" THEN Raise(isnan_call(imaginary))
    ELSE IF isnan(imaginary) THEN Raise("ValueError")
    ELSE Return([real |-> real, imaginary |-> imaginary,
                 infinite |-> too_big_modulus(real, imaginary)])

\* __init__ with the infinite flag not set; an OverflowError of real**2 +
\* imaginary**2 or of isinf(m) is caught and gives the infinite value
InitFinite(real, imaginary) ==
    IF ~isnumeric(real) \/ ~isnumeric(imaginary) THEN Raise("TypeError")
    ELSE IF isnan_call(real) # "" THEN Raise(isnan_call(real))
    ELSE IF isnan(real) THEN Raise("ValueError")
    ELSE IF isnan_call(imaginary) # "" THEN Raise(isnan_call(imaginary))
    ELSE IF isnan(imaginary) THEN Raise("ValueError")
    ELSE IF too_big_modulus(real, imaginary)
             THEN Return([real |-> NaN, imaginary |-> NaN, infinite |-> TRUE])
             ELSE Return([real |-> real, imaginary |-> imaginary,
                          infinite |-> FALSE])

\* RiemannSphere.__init__
RiemannSphere(real, imaginary, infinite) ==
    IF infinite THEN InitInfinite(real, imaginary)
    ELSE InitFinite(real, imaginary)

\* an operand of an arithmetic operator: a RiemannSphere, or a Python scalar
\* held in val.real ("complex" and "Fraction" scalars are not accepted)
Operand(t, v) == [type |-> t, val |-> v]
RS(v) == Operand("RiemannSphere", v)
Scalar(t, q) ==
    Operand(t, [real |-> q, imaginary |-> <<0, 1>>, infinite |-> FALSE])
isinstance(other, types) == other.type \in types

\* ==  on scalars: NaN is equal to nothing
ScalarEq(p, q) == IsNumber(p) /\ IsNumber(q) /\ p = q

is_null(self) ==
    ~self.infinite /\ ScalarEq(self.real, <<0, 1>>)
                   /\ ScalarEq(self.imaginary, <<0, 1>>)

is_infinite(self) == self.infinite

\* RiemannSphere.__eq__
__eq__(self, other) ==
    IF isinstance(other, {"RiemannSphere"})
    THEN IF is_infinite(self) THEN is_infinite(other.val)
         ELSE /\ ScalarEq(self.real, other.val.real)
              /\ ScalarEq(self.imaginary, other.val.imaginary)
              /\ self.infinite = other.val.infinite
    ELSE FALSE

\* other == 0 for the operand of __mul__ / __rmul__
EqualsZero(other) ==
    IF isinstance(other, {"RiemannSphere"}) THEN FALSE
    ELSE isinstance(other, {"int", "float", "Fraction"})
         /\ ScalarEq(other.val.real, <<0, 1>>)

\* __add__ without its test for an infinite other operand
AddWithoutInfiniteTest(self, other) ==
    IF is_infinite(self)
    THEN IF isinstance(other, {"int", "float", "RiemannSphere"})
         THEN Return(INFTY)
         ELSE Raise("TypeError")
    ELSE IF isinstance(other, {"RiemannSphere"})
         THEN RiemannSphere(FAdd(self.real, other.val.real),
                            FAdd(self.imaginary, other.val.imaginary), FALSE)
    ELSE IF isinstance(other, {"int", "float"})
         THEN RiemannSphere(FAdd(self.real, other.val.real), self.imaginary,
                            FALSE)
    ELSE Raise("TypeError")

\* RiemannSphere.__add__
__add__(self, other) ==
    IF is_infinite(self)
    THEN IF isinstance(other, {"int", "float", "RiemannSphere"})
         THEN Return(INFTY)
         ELSE Raise("TypeError")
    ELSE IF isinstance(other, {"RiemannSphere"})
         THEN IF is_infinite(other.val) THEN Return(INFTY)
              ELSE RiemannSphere(FAdd(self.real, other.val.real),
                                 FAdd(self.imaginary, other.val.imaginary),
                                 FALSE)
    ELSE IF isinstance(other, {"int", "float"})
         THEN RiemannSphere(FAdd(self.real, other.val.real), self.imaginary,
                            FALSE)
    ELSE Raise("TypeError")

\* RiemannSphere.__radd__
__radd__(self, other) ==
    IF is_infinite(self)
    THEN IF isinstance(other, {"int", "float", "RiemannSphere"})
         THEN Return(INFTY)
         ELSE Raise("TypeError")
    ELSE IF isinstance(other, {"RiemannSphere"})
         THEN IF is_infinite(other.val) THEN Return(INFTY)
              ELSE RiemannSphere(FAdd(self.real, other.val.real),
                                 FAdd(self.imaginary, other.val.imaginary),
                                 FALSE)
    ELSE IF isinstance(other, {"int", "float"})
         THEN RiemannSphere(FAdd(self.real, other.val.real), self.imaginary,
                            FALSE)
    ELSE Raise("TypeError")

\* RiemannSphere.__sub__
__sub__(self, other) ==
    IF is_infinite(self)
    THEN IF isinstance(other, {"int", "float", "RiemannSphere"})
         THEN Return(INFTY)
         ELSE Raise("TypeError")
    ELSE IF isinstance(other, {"RiemannSphere"})
         THEN IF is_infinite(other.val) THEN Return(INFTY)
              ELSE RiemannSphere(FSub(self.real, other.val.real),
                                 FSub(self.imaginary, other.val.imaginary),
                                 FALSE)
    ELSE IF isinstance(other, {"int", "float"})
         THEN RiemannSphere(FSub(self.real, other.val.real), self.imaginary,
                            FALSE)
    ELSE Raise("TypeError")

\* RiemannSphere.__rsub__
__rsub__(self, other) ==
    IF is_infinite(self)
    THEN IF isinstance(other, {"int", "float", "RiemannSphere"})
         THEN Return(INFTY)
         ELSE Raise("TypeError")
    ELSE IF isinstance(other, {"RiemannSphere"})
         THEN IF is_infinite(other.val) THEN Return(INFTY)
              ELSE RiemannSphere(FSub(other.val.real, self.real),
                                 FSub(other.val.imaginary, self.imaginary),
                                 FALSE)
    ELSE IF isinstance(other, {"int", "float"})
         THEN RiemannSphere(FSub(other.val.real, self.real),
                            FNeg(self.imaginary), FALSE)
    ELSE Raise("TypeError")

\* RiemannSphere.__mul__
__mul__(self, other) ==
    IF is_infinite(self)
    THEN IF ~isinstance(other, {"int", "float", "RiemannSphere"})
         THEN Raise("TypeError")
         ELSE IF (isinstance(other, {"RiemannSphere"}) /\ is_null(other.val))
                 \/ EqualsZero(other)
         THEN Raise("ValueError")
         ELSE Return(INFTY)
    ELSE IF isinstance(other, {"RiemannSphere"})
         THEN IF is_infinite(other.val)
              THEN IF is_null(self) THEN Raise("ValueError")
                   ELSE Return(INFTY)
              ELSE RiemannSphere(
                     FSub(FMul(self.real, other.val.real),
                          FMul(self.imaginary, other.val.imaginary)),
                     FAdd(FMul(self.real, other.val.imaginary),
                          FMul(self.imaginary, other.val.real)), FALSE)
    ELSE IF isinstance(other, {"int", "float"})
         THEN RiemannSphere(FMul(self.real, other.val.real),
                            FMul(self.imaginary, other.val.real), FALSE)
    ELSE Raise("TypeError")

\* __rmul__ without its test for a zero operand
RmulWithoutZeroTest(self, other) ==
    IF is_infinite(self)
    THEN IF ~isinstance(other, {"int", "float", "RiemannSphere"})
         THEN Raise("TypeError")
         ELSE Return(INFTY)
    ELSE IF isinstance(other, {"RiemannSphere"})
         THEN IF is_infinite(other.val)
              THEN IF is_null(self) THEN Raise("ValueError")
                   ELSE Return(INFTY)
              ELSE RiemannSphere(
                     FSub(FMul(self.real, other.val.real),
                          FMul(self.imaginary, other.val.imaginary)),
                     FAdd(FMul(self.real, other.val.imaginary),
                          FMul(self.imaginary, other.val.real)), FALSE)
    ELSE IF isinstance(other, {"int", "float"})
         THEN RiemannSphere(FMul(self.real, other.val.real),
                            FMul(self.imaginary, other.val.real), FALSE)
    ELSE Raise("TypeError")

\* RiemannSphere.__rmul__
__rmul__(self, other) ==
    IF is_infinite(self)
    THEN IF ~isinstance(other, {"int", "float", "RiemannSphere"})
         THEN Raise("TypeError")
         ELSE IF (isinstance(other, {"RiemannSphere"}) /\ is_null(other.val))
                 \/ EqualsZero(other)
         THEN Raise("ValueError")
         ELSE Return(INFTY)
    ELSE IF isinstance(other, {"RiemannSphere"})
         THEN IF is_infinite(other.val)
              THEN IF is_null(self) THEN Raise("ValueError")
                   ELSE Return(INFTY)
              ELSE RiemannSphere(
                     FSub(FMul(self.real, other.val.real),
                          FMul(self.imaginary, other.val.imaginary)),
                     FAdd(FMul(self.real, other.val.imaginary),
                          FMul(self.imaginary, other.val.real)), FALSE)
    ELSE IF isinstance(other, {"int", "float"})
         THEN RiemannSphere(FMul(self.real, other.val.real),
                            FMul(self.imaginary, other.val.real), FALSE)
    ELSE Raise("TypeError")

\* float('Inf')
Inf == <<1, 0>>

\* RiemannSphere.__abs__
__abs__(self) ==
    IF is_infinite(self) THEN Inf
    ELSE sqrt(FAdd(FMul(self.real, self.real),
                   FMul(self.imaginary, self.imaginary)))

\* RiemannSphere.__abs_square__
__abs_square__(self) ==
    IF is_infinite(self) THEN Inf
    ELSE FAdd(FMul(self.real, self.real), FMul(self.imaginary, self.imaginary))

\* the outcome of a call that returns a number
ReturnNumber(q) == [exc |-> "", val |-> q]
RaiseNumber(e) == [exc |-> e, val |-> NaN]

\* RiemannSphere.argument
argument(self) ==
    IF is_infinite(self) THEN RaiseNumber("ValueError")
    ELSE IF is_null(self) THEN RaiseNumber("ValueError")
    ELSE IF self.real[1] > 0
         THEN ReturnNumber(atan(FDiv(self.imaginary, self.real)))
    ELSE IF self.real[1] < 0
         THEN IF self.imaginary[1] >= 0
              THEN ReturnNumber(FAdd(pi, atan(FDiv(self.imaginary, self.real))))
              ELSE ReturnNumber(FAdd(FNeg(pi),
                                     atan(FDiv(self.imaginary, self.real))))
    ELSE IF self.imaginary[1] > 0 THEN ReturnNumber(FDiv(pi, <<2, 1>>))
    ELSE ReturnNumber(FNeg(FDiv(pi, <<2, 1>>)))

\* RiemannSphere.inverse; 1 / m raises ZeroDivisionError when m is 0.0
inverse(self) ==
    IF is_infinite(self) THEN RiemannSphere(<<0, 1>>, <<0, 1>>, FALSE)
    ELSE LET m == __abs__(self)
             m_sq == __abs_square__(self)
         IN  IF is_null(self) THEN Return(INFTY)
             ELSE IF m[1] = 0 THEN Raise("ZeroDivisionError")
             ELSE IF isinf(FDiv(<<1, 1>>, m)) THEN Return(INFTY)
             ELSE RiemannSphere(FDiv(self.real, m_sq),
                                FNeg(FDiv(self.imaginary, m_sq)), FALSE)

\* 1 / other for a scalar other: a float, unless other is a Fraction
Reciprocal(other) ==
    IF isinstance(other, {"Fraction"})
    THEN Scalar("Fraction", FDiv(<<1, 1>>, other.val.real))
    ELSE Scalar("float", float(FDiv(<<1, 1>>, other.val.real)))

\* RiemannSphere.__truediv__
__truediv__(self, other) ==
    IF isinstance(other, {"RiemannSphere"})
    THEN IF is_null(other.val) THEN Raise("ValueError")
         ELSE LET inv == inverse(other.val)
              IN  IF inv.exc # "" THEN inv ELSE __mul__(self, RS(inv.val))
    ELSE IF isinstance(other, {"int", "float", "Fraction"})
    THEN IF ScalarEq(other.val.real, <<0, 1>>) THEN Raise("ValueError")
         ELSE __mul__(self, Reciprocal(other))
    ELSE Raise("TypeError")

\* RiemannSphere.__rtruediv__
__rtruediv__(self, other) ==
    IF isinstance(other, {"RiemannSphere"})
    THEN IF is_null(self) THEN Raise("ValueError")
         ELSE LET inv == inverse(self)
              IN  IF inv.exc # "" THEN inv ELSE __mul__(other.val, RS(inv.val))
    ELSE IF isinstance(other, {"int", "float", "Fraction"})
    THEN IF is_null(self) THEN Raise("ValueError")
         ELSE LET inv == inverse(self)
              IN  IF inv.exc # "" THEN inv ELSE __rmul__(inv.val, other)
    ELSE Raise("TypeError")

\* the 709.1 of complex_exp ("e^x == Inf if x >= 709.1"), a little below
\* the logarithm 709.78 of the largest float, for the floats of the model
ExpLimit == float(FMul(log(<<FloatMax, 1>>), <<7091, 7098>>))

\* RiemannSphere.complex_exp.  The numbers of this method are floats: each
\* is rounded to the floating point format of the model.
complex_exp(self) ==
    IF is_infinite(self) THEN Return(INFTY)
    ELSE LET r == float(__abs__(self))
         IN  IF r[1] = 0 THEN RiemannSphere(<<1, 1>>, <<0, 1>>, FALSE)
             ELSE LET theta == argument(self)
                      x == float(FMul(r, float(cos(float(theta.val)))))
                      y == float(FMul(r, float(sin(float(theta.val)))))
                      is_Inf == FLeq(ExpLimit, x)
                      tmp == RiemannSphere(float(cos(y)), float(sin(y)), FALSE)
                  IN  IF theta.exc # "" THEN Raise(theta.exc)
                      ELSE IF is_Inf THEN Return(INFTY)
                      ELSE IF tmp.exc # "" THEN tmp
                      ELSE __rmul__(tmp.val, Scalar("float", float(exp(x))))

\* RiemannSphere.complex_log
complex_log(self) ==
    IF is_null(self) THEN Raise("ValueError")
    ELSE IF is_infinite(self) THEN Return(INFTY)
    ELSE LET r == __abs__(self)
             theta == argument(self)
         IN  IF r[1] = 0 THEN Raise("ValueError")
             ELSE RiemannSphere(float(log(r)), float(theta.val), FALSE)

\* the loop of __pow__ for an integer exponent:
\*   for i in range(other): p *= self
RECURSIVE PowLoop(_, _, _)
PowLoop(p, self, n) ==
    IF n <= 0 THEN Return(p)
    ELSE LET q == __mul__(p, RS(self))
         IN  IF q.exc # "" THEN q ELSE PowLoop(q.val, self, n - 1)

\* (other * self.complex_log()).complex_exp()
ExpOfProduct(self, other) ==
    LET l == complex_log(self)
        product == IF isinstance(other, {"RiemannSphere"})
                   THEN __mul__(other.val, RS(l.val))
                   ELSE __rmul__(l.val, other)
    IN  IF l.exc # "" THEN l
        ELSE IF product.exc # "" THEN product
        ELSE complex_exp(product.val)

\* RiemannSphere.__pow__
__pow__(self, other) ==
    IF isinstance(other, {"int"})
    THEN PowLoop([real |-> <<1, 1>>, imaginary |-> <<0, 1>>,
                  infinite |-> FALSE], self, int(other.val.real))
    ELSE IF is_null(self) THEN Raise("ValueError")
    ELSE IF isinstance(other, {"float"})
    THEN IF is_infinite(self)
         THEN IF ScalarEq(other.val.real, <<0, 1>>) THEN Raise("ValueError")
              ELSE Return(INFTY)
         ELSE ExpOfProduct(self, other)
    ELSE IF isinstance(other, {"RiemannSphere"})
    THEN IF is_infinite(self)
         THEN IF is_null(other.val) THEN Raise("ValueError")
              ELSE Return(INFTY)
         ELSE ExpOfProduct(self, other)
    ELSE Raise("ValueError")

\* RiemannSphere.__rpow__: other ** self for a scalar other; math.log raises
\* TypeError for a complex and ValueError for a negative number
__rpow__(self, other) ==
    IF isinstance(other, {"int", "float", "Fraction"})
       /\ ScalarEq(other.val.real, <<0, 1>>) THEN Raise("ValueError")
    ELSE IF isinstance(other, {"complex"})
    THEN IF ScalarEq(other.val.real, <<0, 1>>) THEN Raise("ValueError")
         ELSE Raise("TypeError")
    ELSE IF other.val.real[1] < 0 THEN Raise("ValueError")
    ELSE LET product == __mul__(self, Scalar("float",
                                             float(log(other.val.real))))
         IN  IF product.exc # "" THEN product ELSE complex_exp(product.val)

\* RiemannSphere.__neg__
__neg__(self) ==
    IF is_infinite(self) THEN Return(INFTY)
    ELSE RiemannSphere(FNeg(self.real), FNeg(self.imaginary), FALSE)

\* RiemannSphere.conjugate
conjugate(self) ==
    IF is_infinite(self) THEN Return(self)
    ELSE RiemannSphere(self.real, FNeg(self.imaginary), FALSE)

\* RiemannSphere.__hash__:  int((self.real + self.imaginary) * 1000); int()
\* of a NaN raises ValueError
__hash__(self) ==
    LET h == FMul(FAdd(self.real, self.imaginary), <<1000, 1>>)
    IN  IF isnan(h) THEN [exc |-> "ValueError", val |-> 0]
        ELSE [exc |-> "", val |-> int(h)]

\* Python's dispatch of  l o r : the left operand's method when it is a
\* RiemannSphere, the right operand's reflected method otherwise
BinaryOp(o, l, r) ==
    IF isinstance(l, {"RiemannSphere"})
    THEN CASE o = "+" -> __add__(l.val, r)
           [] o = "-" -> __sub__(l.val, r)
           [] o = "*" -> __mul__(l.val, r)
           [] o = "/" -> __truediv__(l.val, r)
           [] o = "**" -> __pow__(l.val, r)
    ELSE CASE o = "+" -> __radd__(r.val, l)
           [] o = "-" -> __rsub__(r.val, l)
           [] o = "*" -> __rmul__(r.val, l)
           [] o = "/" -> __rtruediv__(r.val, l)
           [] o = "**" -> __rpow__(r.val, l)

---------------------------------------------------------------------------
(* Color.py                                                                *)

\* approx(f) with a half going away from zero
ApproxHalfAwayFromZero(f) ==
    IF FLess(FAbs(FSub(f, FromInt(int(f)))), <<1, 2>>) THEN int(f)
    ELSE IF f[1] >= 0 THEN int(f) + 1
    ELSE int(f) - 1

\* approx(f): the nearest integer, a half going toward zero
approx(f) ==
    IF FLeq(FAbs(FSub(f, FromInt(int(f)))), <<1, 2>>) THEN int(f)
    ELSE IF f[1] >= 0 THEN int(f) + 1
    ELSE int(f) - 1

\* the hue of a finite non-zero z, without the turn added to an angle <= 0
HueWithoutTurn(z) ==
    LET hue == FDiv(FMul(argument(z).val, <<180, 1>>), pi)
    IN  approx(FromInt(approx(hue)))

\* the hue of a finite non-zero z
Hue(z) ==
    LET hue == FDiv(FMul(argument(z).val, <<180, 1>>), pi)
    IN  approx(FromInt(approx(IF hue[1] <= 0 THEN FAdd(hue, <<360, 1>>)
                              ELSE hue)))

\* the lightness of a finite non-zero z
Lightness(z) ==
    LET r == __abs__(z)
        logarithm == log(r)
    IN  IF r[1] = 0 THEN <<0, 1>>
        ELSE FDiv(FAdd(FDiv(logarithm, FAdd(<<1, 1>>, FAbs(logarithm))),
                       <<1, 1>>), <<2, 1>>)

\* HSL(z): [exc, val] with val = <<hue, saturation, lightness>>
HSL(z) ==
    IF isinstance(z, {"RiemannSphere"})
    THEN IF is_null(z.val) THEN [exc |-> "", val |-> <<0, 1, <<0, 1>>>>]
         ELSE IF is_infinite(z.val)
         THEN [exc |-> "", val |-> <<0, 1, <<1, 1>>>>]
         ELSE [exc |-> "", val |-> <<Hue(z.val), 1, Lightness(z.val)>>]
    ELSE [exc |-> "ValueError", val |-> <<0, 0, NaN>>]

\* math.ceil of a number
ceil(q) == IF q[1] >= 0 THEN (q[1] + q[2] - 1) \div q[2]
           ELSE -((-q[1]) \div q[2])

\* q % 2 for a number q >= 0
Mod2(q) == FSub(q, FromInt(2 * (int(q) \div 2)))

\* the triple (r_tmp, g_tmp, b_tmp) of RGB
Sextant(hue_prime, C, X) ==
    IF ceil(hue_prime) <= 1 THEN <<C, X, <<0, 1>>>>
    ELSE IF ceil(hue_prime) = 2 THEN <<X, C, <<0, 1>>>>
    ELSE IF ceil(hue_prime) = 3 THEN <<<<0, 1>>, C, X>>
    ELSE IF ceil(hue_prime) = 4 THEN <<<<0, 1>>, X, C>>
    ELSE IF ceil(hue_prime) = 5 THEN <<X, <<0, 1>>, C>>
    ELSE IF ceil(hue_prime) = 6 THEN <<C, <<0, 1>>, X>>
    ELSE <<<<0, 1>>, <<0, 1>>, <<0, 1>>>>

\* RGB after its call of HSL, with int in the place of approx
HSLtoRGBTruncating(hue, saturation, lightness) ==
    LET C == FMul(FSub(<<1, 1>>, FAbs(FSub(FMul(<<2, 1>>, lightness), <<1, 1>>))),
                  FromInt(saturation))
        hue_prime == Fraction(hue, 60)
        X == FMul(C, FSub(<<1, 1>>, FAbs(FSub(Mod2(hue_prime), <<1, 1>>))))
        m == FSub(lightness, FDiv(C, <<2, 1>>))
        tmp == Sextant(hue_prime, C, X)
    IN  <<int(FMul(FAdd(tmp[1], m), <<255, 1>>)),
          int(FMul(FAdd(tmp[2], m), <<255, 1>>)),
          int(FMul(FAdd(tmp[3], m), <<255, 1>>))>>

\* RGB after its call of HSL: the colour of hue, saturation, lightness
HSLtoRGB(hue, saturation, lightness) ==
    LET C == FMul(FSub(<<1, 1>>, FAbs(FSub(FMul(<<2, 1>>, lightness), <<1, 1>>))),
                  FromInt(saturation))
        hue_prime == Fraction(hue, 60)
        X == FMul(C, FSub(<<1, 1>>, FAbs(FSub(Mod2(hue_prime), <<1, 1>>))))
        m == FSub(lightness, FDiv(C, <<2, 1>>))
        tmp == Sextant(hue_prime, C, X)
    IN  <<approx(FMul(FAdd(tmp[1], m), <<255, 1>>)),
          approx(FMul(FAdd(tmp[2], m), <<255, 1>>)),
          approx(FMul(FAdd(tmp[3], m), <<255, 1>>))>>

\* RGB(z): [exc, val] with val = <<r, g, b>>
RGB(z) ==
    LET hsl == HSL(z)
    IN  IF hsl.exc # "" THEN hsl
        ELSE [exc |-> "",
              val |-> HSLtoRGB(hsl.val[1], hsl.val[2], hsl.val[3])]

---------------------------------------------------------------------------
(* PhasePortrait.py: the supplied function, the grid and the cache keys    *)

\* The functions the caller may supply (self.function):
\*   identity      lambda z: z
\*   times_infty   lambda z: INFTY * z          ValueError at 0
\*   partial       defined where real >= imaginary only (ValueError elsewhere)
\*   faulty        lambda z: z if z.imaginary == 0 else z + 1j    (TypeError)
Functions == {"identity", "times_infty", "partial", "faulty"}

Apply(f, z) ==
    CASE f = "identity" -> Return(z)
      [] f = "times_infty" -> __mul__(INFTY, RS(z))
      [] f = "partial" -> IF FLess(z.real, z.imaginary) THEN Raise("ValueError")
                          ELSE __add__(z, Scalar("int", <<1, 1>>))
      [] f = "faulty" -> IF ScalarEq(z.imaginary, <<0, 1>>) THEN Return(z)
                         ELSE __add__(z, Scalar("complex", <<0, 1>>))

\* range(int((upper - lower) * resolution) + 1) without the "+ 1"
ListeWithoutLastPoint(lower, upper, resol) ==
    LET n == int(FMul(FSub(upper, lower), FromInt(resol)))
    IN  IF n <= 0 THEN <<>>
        ELSE [i \in 1..n |-> FAdd(lower, Fraction(i - 1, resol))]

\* the list starting one step after the lower corner
ListeFromOne(lower, upper, resol) ==
    LET n == int(FMul(FSub(upper, lower), FromInt(resol))) + 1
    IN  IF n <= 0 THEN <<>>
        ELSE [i \in 1..n |-> FAdd(lower, Fraction(i, resol))]

\* self.liste_x / self.liste_y
\*   [lower + Fraction(i, resolution)
\*    for i in range(int((upper - lower) * resolution) + 1)]
Liste(lower, upper, resol) ==
    LET n == int(FMul(FSub(upper, lower), FromInt(resol))) + 1
    IN  IF n <= 0 THEN <<>>
        ELSE [i \in 1..n |-> FAdd(lower, Fraction(i - 1, resol))]

\* self.size
Size(lb, ru, resol) ==
    <<int(FMul(FSub(ru.real, lb.real), FromInt(resol))) + 1,
      int(FMul(FSub(ru.imaginary, lb.imaginary), FromInt(resol))) + 1>>

Min(S) == CHOOSE m \in S : \A n \in S : m <= n
Max(S) == CHOOSE m \in S : \A n \in S : m >= n

\* list.index(x) counting the positions from 1
IndexFromOne(l, x) ==
    LET at == {i \in 1..Len(l) : l[i] = x}
    IN  IF at = {} THEN -1 ELSE Min(at)

\* list.index(x): position (from 0) of the first element equal to x, -1 when
\* there is none (Python raises ValueError)
index(l, x) ==
    LET at == {i \in 1..Len(l) : l[i] = x}
    IN  IF at = {} THEN -1 ELSE Min(at) - 1

\* dict_x[str(x)] with dict_x = {str(liste[pos]): pos for pos in range(len)}:
\* the last position holding x
DictIndex(l, x) == Max({i \in 1..Len(l) : l[i] = x}) - 1

\* lcm_tmp = abs(x.denominator * y.denominator) // gcd(x.denominator, y.denominator)
lcm_tmp(x, y) ==
    Abs(denominator(x) * denominator(y)) \div gcd(denominator(x), denominator(y))

\* the row inserted into TMP for the grid coordinate (x, y)
TmpKey(x, y) ==
    [multiplier |-> lcm_tmp(x, y),
     real |-> int(FMul(x, FromInt(lcm_tmp(x, y)))),
     imaginary |-> int(FMul(y, FromInt(lcm_tmp(x, y))))]

\* the Z row with the real and imaginary columns exchanged
ZKeySwapped(z) ==
    [multiplier |-> lcm_tmp(z.real, z.imaginary),
     real |-> int(FMul(z.imaginary, FromInt(lcm_tmp(z.real, z.imaginary)))),
     imaginary |-> int(FMul(z.real, FromInt(lcm_tmp(z.real, z.imaginary)))),
     infinite |-> 0]

\* the row inserted into Z for the argument z
ZKey(z) ==
    [multiplier |-> lcm_tmp(z.real, z.imaginary),
     real |-> int(FMul(z.real, FromInt(lcm_tmp(z.real, z.imaginary)))),
     imaginary |-> int(FMul(z.imaginary, FromInt(lcm_tmp(z.real, z.imaginary)))),
     infinite |-> 0]

\* a float bound to a FLOAT column: sqlite stores NaN as NULL
SqlFloat(f) == IF isnan(f) THEN NULL ELSE f

\* the row inserted into Value for the computed value v
ValueRow(v) ==
    [real |-> SqlFloat(float(v.real)),
     imaginary |-> SqlFloat(float(v.imaginary)),
     infinite |-> IF is_infinite(v) THEN 1 ELSE 0]

\* convert(u, v, w)
convert(u, v, w) ==
    <<IF IsNumber(u) THEN u ELSE NaN,
      IF IsNumber(v) THEN v ELSE NaN,
      w # 0>>

EmptyDict == <<>>

\* values[pixel] = v
DictSet(d, pixel, v) ==
    [p \in (DOMAIN d) \cup {pixel} |-> IF p = pixel THEN v ELSE d[p]]

\* [(x, y) for x in self.liste_x for y in self.liste_y]
AllPoints(lx, ly) ==
    [k \in 1..(Len(lx) * Len(ly)) |->
        <<lx[((k - 1) \div Len(ly)) + 1], ly[((k - 1) % Len(ly)) + 1]>>]

\* the to-compute list that ignores what was recovered
ToComputeAll(lx, ly, vals) == AllPoints(lx, ly)

\* [(x, y) for x in self.liste_x for y in self.liste_y
\*  if (dict_x[str(x)], dict_y[str(y)]) not in values_keys]
ToCompute(lx, ly, vals) ==
    LET Missing(p) ==
            <<DictIndex(lx, p[1]), DictIndex(ly, p[2])>> \notin DOMAIN vals
    IN  SelectSeq(AllPoints(lx, ly), Missing)

---------------------------------------------------------------------------
(* PhasePortrait.recover_datas, compute_a_value and compute                *)

\* the three key columns of a Z or TMP row
KeyColumns(row) == <<row.multiplier, row.real, row.imaginary>>

\* recover_datas: the TMP table, the join of Z, TMP and Value, and the
\* dictionary built from the rows fetched.  The rows of a SELECT without
\* ORDER BY come in an order sqlite chooses (scan); a later row overwrites
\* an earlier one for the same pixel.  The result is [exc, values].
recover_datas(Zt, Vt, lx, ly, scan) ==
    LET TMP == {KeyColumns(TmpKey(lx[i], ly[j])) :
                    i \in 1..Len(lx), j \in 1..Len(ly)}
        hits == {id \in 1..Len(Zt) :
                    id <= Len(Vt) /\ KeyColumns(Zt[id]) \in TMP}
        Pixel(id) ==
            <<index(lx, Fraction(Zt[id].real, Zt[id].multiplier)),
              index(ly, Fraction(Zt[id].imaginary, Zt[id].multiplier))>>
        fetched == {<<Pixel(id), id>> : id \in hits}
        Built(id) ==
            LET c == convert(Vt[id].real, Vt[id].imaginary, Vt[id].infinite)
            IN  RiemannSphere(c[1], c[2], c[3])
        Last(pixel) ==
            LET ids == {row[2] : row \in {f \in fetched : f[1] = pixel}}
            IN  IF scan = "ascending" THEN Max(ids) ELSE Min(ids)
    IN  IF \E row \in fetched : row[1][1] < 0 \/ row[1][2] < 0
        THEN [exc |-> "ValueError", values |-> EmptyDict]
        ELSE IF \E id \in hits : Built(id).exc # ""
        THEN [exc |-> (CHOOSE e \in {Built(id).exc : id \in hits} : e # ""),
              values |-> EmptyDict]
        ELSE [exc |-> "",
              values |-> [pixel \in {row[1] : row \in fetched} |->
                              Built(Last(pixel)).val]]

\* compute_a_value that lets the function's ValueError escape
ComputeAValueWithoutExcept(f, db, z, pixel, vals, Zt, Vt) ==
    LET out == Apply(f, z)
    IN  IF out.exc # ""
        THEN [exc |-> out.exc, values |-> vals, Z |-> Zt, Value |-> Vt]
        ELSE [exc |-> "", values |-> DictSet(vals, pixel, out.val),
              Z |-> IF db # "" THEN Append(Zt, ZKey(z)) ELSE Zt,
              Value |-> IF db # "" THEN Append(Vt, ValueRow(out.val)) ELSE Vt]

\* compute_a_value that stores the value at the next free pixel of the row
ComputeAValueAtNextPixel(f, db, z, pixel, vals, Zt, Vt) ==
    LET out == Apply(f, z)
        at == <<Cardinality(DOMAIN vals), pixel[2]>>
    IN  IF out.exc = "ValueError"
        THEN [exc |-> "", values |-> vals, Z |-> Zt, Value |-> Vt]
        ELSE IF out.exc # ""
        THEN [exc |-> out.exc, values |-> vals, Z |-> Zt, Value |-> Vt]
        ELSE [exc |-> "", values |-> DictSet(vals, at, out.val),
              Z |-> IF db # "" THEN Append(Zt, ZKey(z)) ELSE Zt,
              Value |-> IF db # "" THEN Append(Vt, ValueRow(out.val)) ELSE Vt]

\* compute_a_value that inserts the Z row before it calls the function
ComputeAValueKeyFirst(f, db, z, pixel, vals, Zt, Vt) ==
    LET out == Apply(f, z)
        key == IF db # "" /\ ~is_infinite(z) THEN Append(Zt, ZKey(z)) ELSE Zt
    IN  IF out.exc = "ValueError"
        THEN [exc |-> "", values |-> vals, Z |-> key, Value |-> Vt]
        ELSE IF out.exc # ""
        THEN [exc |-> out.exc, values |-> vals, Z |-> Zt, Value |-> Vt]
        ELSE IF db # "" /\ is_infinite(z)
        THEN [exc |-> "AttributeError", values |-> vals, Z |-> Zt, Value |-> Vt]
        ELSE [exc |-> "", values |-> DictSet(vals, pixel, out.val),
              Z |-> key,
              Value |-> IF db # "" THEN Append(Vt, ValueRow(out.val)) ELSE Vt]

\* compute_a_value(z, pixel, resol, values, cursor): the dictionary and the
\* two tables after the call, and the exception that escapes it ("" if none).
\* z.real.denominator raises AttributeError on the NaN of an infinite z.
compute_a_value(f, db, z, pixel, vals, Zt, Vt) ==
    LET out == Apply(f, z)
    IN  IF out.exc = "ValueError"
        THEN [exc |-> "", values |-> vals, Z |-> Zt, Value |-> Vt]
        ELSE IF out.exc # ""
        THEN [exc |-> out.exc, values |-> vals, Z |-> Zt, Value |-> Vt]
        ELSE IF db # "" /\ is_infinite(z)
        THEN [exc |-> "AttributeError", values |-> vals, Z |-> Zt, Value |-> Vt]
        ELSE [exc |-> "", values |-> DictSet(vals, pixel, out.val),
              Z |-> IF db # "" THEN Append(Zt, ZKey(z)) ELSE Zt,
              Value |-> IF db # "" THEN Append(Vt, ValueRow(out.val)) ELSE Vt]

\* the divisor of the number of points in compute's commit granularity
ProgressDivisor == 200

\* one_half_per_cent = int(lenght / 200), 1 when that is 0
OneHalfPerCent(lenght) ==
    IF lenght \div ProgressDivisor = 0 THEN 1 ELSE lenght \div ProgressDivisor

\* compute's epilogue without its commit
NoFinalCommit(db, Zt, Vt, d) == d

\* connection.commit() at the end of compute, when persistence is enabled
FinalCommit(db, Zt, Vt, d) ==
    IF db # "" THEN [Z |-> Zt, Value |-> Vt] ELSE d

\* connection.commit() inside the loop, every one_half_per_cent points
PeriodicCommit(db, n, granularity, Zt, Vt, d) ==
    IF n % granularity = 0 /\ db # "" THEN [Z |-> Zt, Value |-> Vt] ELSE d

---------------------------------------------------------------------------
(* PhasePortrait.draw                                                      *)

\* no image is drawn yet
NoImage == <<>>

\* range(img.size[0]) x range(img.size[1])
ImagePixels(sz) == (0..(sz[1] - 1)) \X (0..(sz[2] - 1))

\* Image.new('RGB', self.size) without its colour argument
Black == <<0, 0, 0>>

\* Image.new('RGB', self.size, "white"): the colour of every pixel of the new
\* image
White == <<255, 255, 255>>

\* the key read for the pixel (i, j) without the inversion of the axis
ValuesKeyUpright(sz, i, j) == <<i, j>>

\* the key of self.values read for the image pixel (i, j)
ValuesKey(sz, i, j) == <<i, sz[2] - j - 1>>

\* the diagnostic of the except KeyError branch for the pixel (i, j): the
\* coordinates and the point z that its text names
Diagnostic(sz, lb, ru, resol, i, j) ==
    [coords |-> <<i, sz[2] - j - 1>>,
     z |-> RiemannSphere(FAdd(lb.real, Fraction(i, resol)),
                         FSub(ru.imaginary, Fraction(j, resol)), FALSE).val]

\* draw: for each pixel the outcome of the body of the loops, which is the
\* outcome of RGB on the value read or, in the except KeyError branch, the
\* pixel left as Image.new made it; and the diagnostics emitted
draw(vals, sz, lb, ru, resol) ==
    [pixels |-> [p \in ImagePixels(sz) |->
                    IF ValuesKey(sz, p[1], p[2]) \in DOMAIN vals
                    THEN RGB(RS(vals[ValuesKey(sz, p[1], p[2])]))
                    ELSE [exc |-> "", val |-> White]],
     diagnostics |-> {Diagnostic(sz, lb, ru, resol, p[1], p[2]) :
                         p \in {q \in ImagePixels(sz) :
                                   ValuesKey(sz, q[1], q[2])
                                       \notin DOMAIN vals}}]

---------------------------------------------------------------------------
(* The requests of the caller                                              *)

Finite(re, im) == [real |-> re, imaginary |-> im, infinite |-> FALSE]

Request(lb, ru, resol, db) ==
    [left_below |-> lb, right_upper |-> ru, resolution |-> resol,
     database |-> db]

Half == <<1, 2>>
Zero == <<0, 1>>
One == <<1, 1>>

\* the rectangles: a strip with integer corners, a square and a strip with
\* fractional corners
Rectangles ==
    { <<Finite(Zero, Zero), Finite(One, Zero)>>,
      <<Finite(Zero, Zero), Finite(Half, Half)>>,
      <<Finite(FNeg(Half), Half), Finite(Half, Half)>> }

\* a rectangle whose corners are exchanged
ExchangedRectangle == <<Finite(One, Zero), Finite(Zero, Zero)>>

Resolutions == {1, 2, 3, 4}

\* the request of the doctest of the class: identity on [0, 1 + 2i] at 2
DoctestRequest == Request(Finite(Zero, Zero), Finite(One, <<2, 1>>), 2, "")

Requests ==
    { Request(r[1], r[2], n, "") : r \in Rectangles, n \in Resolutions }
    \cup { Request(r[1], r[2], n, "db") :
              r \in Rectangles, n \in Resolutions \ {1} }
    \cup { Request(ExchangedRectangle[1], ExchangedRectangle[2], n, "") :
              n \in Resolutions }
    \cup {DoctestRequest}

\* a strip of 401 points, and a square
LargeRequests ==
    { Request(Finite(Zero, Zero), Finite(<<4, 1>>, Zero), 100, "db"),
      Request(Finite(Zero, Zero), Finite(Half, Half), 2, "db") }

\* the requests of the runs that evaluate the points in any order
OrderRequests ==
    { Request(Finite(Zero, Zero), Finite(One, Zero), 2, "db"),
      Request(Finite(Zero, Zero), Finite(Half, Half), 2, "db"),
      Request(Finite(Zero, Zero), Finite(Half, Half), 3, "") }

---------------------------------------------------------------------------
(* The passes                                                              *)

\* the two processes that run a pass on the same store
Writers == {1, 2}

\* a process that has not started its pass
IdleWriter ==
    [pc |-> "idle", database |-> "", liste_x |-> <<>>, liste_y |-> <<>>,
     recovered |-> EmptyDict, values |-> EmptyDict, to_compute |-> <<>>,
     nb_of_element |-> 0, one_half_per_cent |-> 1]

InitPasses(fs, rs) ==
    /\ function \in fs
    /\ requests = rs
    /\ left_below = Finite(Zero, Zero)
    /\ right_upper = Finite(Zero, Zero)
    /\ resolution = 1
    /\ database = ""
    /\ size = <<0, 0>>
    /\ liste_x = <<>>
    /\ liste_y = <<>>
    /\ values = EmptyDict
    /\ to_compute = <<>>
    /\ nb_of_element = 0
    /\ one_half_per_cent = 1
    /\ pc = "idle"
    /\ called = {}
    /\ passes = 0
    /\ completed = {}
    /\ isfile = FALSE
    /\ Z = <<>>
    /\ Value = <<>>
    /\ disk = [Z |-> <<>>, Value |-> <<>>]
    /\ img = NoImage
    /\ diagnostics = {}
    /\ writers = [w \in Writers |-> IdleWriter]

\* no arithmetic expression is under evaluation
InitNoExpression ==
    /\ lhs = RS(INFTY)
    /\ rhs = RS(INFTY)
    /\ op = ""
    /\ result = Return(INFTY)
    /\ steps = 0

Init == InitPasses(Functions, Requests) /\ InitNoExpression

\* PhasePortrait.__init__ and the part of compute before its loop: the grid,
\* the connection to the store, the recovered values and the to-compute list
Construct(req, scan) ==
    /\ pc \in {"idle", "done", "aborted"}
    /\ passes < MaxPasses
    /\ req \in requests
    /\ LET lx == Liste(req.left_below.real, req.right_upper.real,
                       req.resolution)
           ly == Liste(req.left_below.imaginary, req.right_upper.imaginary,
                       req.resolution)
           existing == isfile /\ req.database # ""
           rec == IF existing
                  THEN recover_datas(disk.Z, disk.Value, lx, ly, scan)
                  ELSE [exc |-> "", values |-> EmptyDict]
           todo == IF existing THEN ToCompute(lx, ly, rec.values)
                   ELSE AllPoints(lx, ly)
       IN  /\ left_below' = req.left_below
           /\ right_upper' = req.right_upper
           /\ resolution' = req.resolution
           /\ database' = req.database
           /\ size' = Size(req.left_below, req.right_upper, req.resolution)
           /\ liste_x' = lx
           /\ liste_y' = ly
           /\ values' = rec.values
           /\ to_compute' = IF rec.exc = "" THEN todo ELSE <<>>
           /\ one_half_per_cent' =
                  IF rec.exc = "" THEN OneHalfPerCent(Len(todo)) ELSE 1
           /\ pc' = IF rec.exc = "" THEN "loop" ELSE "aborted"
           /\ isfile' = (isfile \/ req.database # "")
    /\ nb_of_element' = 0
    /\ called' = {}
    /\ passes' = passes + 1
    /\ Z' = disk.Z
    /\ Value' = disk.Value
    /\ img' = NoImage
    /\ diagnostics' = {}
    /\ UNCHANGED <<writers, function, requests, completed, disk, arithVars>>

\* one iteration of compute's loop, on the k-th point of to_compute, when no
\* exception escapes it
Iteration(k) ==
    LET x == to_compute[k][1]
        y == to_compute[k][2]
        z == RiemannSphere(x, y, FALSE)
        pixel == <<index(liste_x, x), index(liste_y, y)>>
        r == compute_a_value(function, database, z.val, pixel, values,
                             Z, Value)
    IN  /\ z.exc = ""
        /\ r.exc = ""
        /\ values' = r.values
        /\ Z' = r.Z
        /\ Value' = r.Value
        /\ nb_of_element' = nb_of_element + 1
        /\ called' = called \cup {to_compute[k]}
        /\ disk' = PeriodicCommit(database, nb_of_element + 1,
                                  one_half_per_cent, r.Z, r.Value, disk)
        /\ UNCHANGED <<writers, function, requests, left_below, right_upper,
                       resolution, database, size, liste_x, liste_y,
                       to_compute, one_half_per_cent, pc, passes, completed,
                       isfile, arithVars, drawVars>>

\* one iteration of compute's loop in which an exception escapes: compute
\* raises, and the connection is dropped with its uncommitted rows
IterationRaises(k) ==
    LET x == to_compute[k][1]
        y == to_compute[k][2]
        z == RiemannSphere(x, y, FALSE)
        pixel == <<index(liste_x, x), index(liste_y, y)>>
        r == compute_a_value(function, database, z.val, pixel, values,
                             Z, Value)
    IN  /\ z.exc # "" \/ r.exc # ""
        /\ pc' = "aborted"
        /\ called' = called \cup {to_compute[k]}
        /\ Z' = disk.Z
        /\ Value' = disk.Value
        /\ UNCHANGED <<writers, function, requests, left_below, right_upper,
                       resolution, database, size, liste_x, liste_y, values,
                       to_compute, nb_of_element, one_half_per_cent, passes,
                       completed, isfile, disk, arithVars, drawVars>>

\* for (x, y) in to_compute: the points are taken in the order of the list
ComputeAValue ==
    /\ pc = "loop"
    /\ nb_of_element < Len(to_compute)
    /\ Iteration(nb_of_element + 1)

ComputeRaises ==
    /\ pc = "loop"
    /\ nb_of_element < Len(to_compute)
    /\ IterationRaises(nb_of_element + 1)

\* the loop with its points taken in any order
ComputeAnyValue ==
    /\ pc = "loop"
    /\ \E k \in 1..Len(to_compute) :
          /\ to_compute[k] \notin called
          /\ Iteration(k)

ComputeAnyRaises ==
    /\ pc = "loop"
    /\ \E k \in 1..Len(to_compute) :
          /\ to_compute[k] \notin called
          /\ IterationRaises(k)

\* the end of compute: the final commit, cursor.close() and the return
Finish ==
    /\ pc = "loop"
    /\ nb_of_element = Len(to_compute)
    /\ disk' = FinalCommit(database, Z, Value, disk)
    /\ pc' = "done"
    /\ completed' =
          IF database # ""
          THEN completed \cup {Request(left_below, right_upper, resolution,
                                       database)}
          ELSE completed
    /\ UNCHANGED <<writers, function, requests, left_below, right_upper, resolution,
                   database, size, liste_x, liste_y, values, to_compute,
                   nb_of_element, one_half_per_cent, called, passes, isfile,
                   Z, Value, arithVars, drawVars>>

\* draw on the values that compute returned
Draw ==
    /\ pc = "done"
    /\ \E d \in {draw(values, size, left_below, right_upper, resolution)} :
          /\ \A p \in DOMAIN d.pixels : d.pixels[p].exc = ""
          /\ img' = [p \in DOMAIN d.pixels |-> d.pixels[p].val]
          /\ diagnostics' = d.diagnostics
    /\ UNCHANGED <<writers, function, requests, passVars, storeVars, arithVars>>

Next ==
    \/ \E req \in Requests \cup LargeRequests,
          scan \in {"ascending", "descending"} : Construct(req, scan)
    \/ ComputeAValue
    \/ ComputeRaises
    \/ Finish

Spec == Init /\ [][Next]_vars

\* the runs over a grid large enough for a commit granularity above 1
InitLarge == InitPasses(Functions, LargeRequests) /\ InitNoExpression
SpecLarge == InitLarge /\ [][Next]_vars

\* the runs that evaluate the to-compute points in any order
InitOrder == InitPasses(Functions, OrderRequests) /\ InitNoExpression
NextOrder ==
    \/ \E req \in OrderRequests,
          scan \in {"ascending", "descending"} : Construct(req, scan)
    \/ ComputeAnyValue
    \/ ComputeAnyRaises
    \/ Finish
SpecOrder == InitOrder /\ [][NextOrder]_vars

\* the requests of the runs that draw: squares whose sides are or are not
\* a whole number of steps, with and without a store
DrawRequests ==
    { Request(Finite(Zero, Zero), Finite(One, One), 1, ""),
      Request(Finite(Zero, Zero), Finite(One, One), 1, "db"),
      Request(Finite(Zero, Zero), Finite(Half, One), 2, "db"),
      Request(Finite(Zero, Zero), Finite(Half, Half), 1, ""),
      Request(Finite(Zero, Zero), Finite(Half, Half), 3, ""),
      Request(Finite(FNeg(Half), FNeg(Half)), Finite(Half, Half), 1, "") }

InitDraw == InitPasses(Functions, DrawRequests) /\ InitNoExpression
NextDraw ==
    \/ \E req \in DrawRequests,
          scan \in {"ascending", "descending"} : Construct(req, scan)
    \/ ComputeAValue
    \/ ComputeRaises
    \/ Finish
    \/ Draw
SpecDraw == InitDraw /\ [][NextDraw]_vars

---------------------------------------------------------------------------
(* Two passes on one store.  Each process has its own PhasePortrait and    *)
(* its own connection; the store is the committed content of the file.    *)
(* The grids have fewer than 200 points, so that one_half_per_cent is 1   *)
(* and every iteration of the loop ends with a commit: no transaction     *)
(* stays open from one iteration to the next.  The part of compute before *)
(* its loop is one step.                                                   *)

\* the requests of the two processes: grids that share points
WriterRequests ==
    { Request(Finite(Zero, Zero), Finite(One, Zero), 1, "db"),
      Request(Finite(Zero, Zero), Finite(One, Zero), 2, "db"),
      Request(Finite(Zero, Zero), Finite(Half, Half), 2, "db") }

\* __init__ and the part of compute before its loop, in the process w: the
\* lookup of the recorded values and the to-compute list
WriterStarts(w, req, scan) ==
    /\ writers[w].pc = "idle"
    /\ req \in requests
    /\ req.database # ""
    /\ \E lx \in {Liste(req.left_below.real, req.right_upper.real,
                         req.resolution)},
          ly \in {Liste(req.left_below.imaginary, req.right_upper.imaginary,
                         req.resolution)} :
          \E rec \in {IF isfile
                       THEN recover_datas(disk.Z, disk.Value, lx, ly, scan)
                       ELSE [exc |-> "", values |-> EmptyDict]} :
             \E todo \in {IF isfile THEN ToCompute(lx, ly, rec.values)
                                    ELSE AllPoints(lx, ly)} :
                /\ OneHalfPerCent(Len(todo)) = 1
                /\ writers' =
                      [writers EXCEPT ![w] =
                          [pc |-> IF rec.exc = "" THEN "loop" ELSE "aborted",
                           database |-> req.database,
                           liste_x |-> lx,
                           liste_y |-> ly,
                           recovered |-> rec.values,
                           values |-> rec.values,
                           to_compute |-> IF rec.exc = "" THEN todo ELSE <<>>,
                           nb_of_element |-> 0,
                           one_half_per_cent |-> OneHalfPerCent(Len(todo))]]
    /\ isfile' = TRUE
    /\ UNCHANGED <<function, requests, passVars, Z, Value, disk, arithVars,
                   drawVars>>

\* the outcome of compute_a_value on the next point of the process w, on
\* the tables as they are in the store when the process inserts
WriterOutcome(w) ==
    LET x == writers[w].to_compute[writers[w].nb_of_element + 1][1]
        y == writers[w].to_compute[writers[w].nb_of_element + 1][2]
    IN  IF RiemannSphere(x, y, FALSE).exc # ""
        THEN [exc |-> RiemannSphere(x, y, FALSE).exc,
              values |-> writers[w].values, Z |-> disk.Z,
              Value |-> disk.Value]
        ELSE compute_a_value(function, writers[w].database,
                             Finite(x, y),
                             <<index(writers[w].liste_x, x),
                               index(writers[w].liste_y, y)>>,
                             writers[w].values, disk.Z, disk.Value)

\* one iteration of the loop of compute in the process w, with its commit
WriterComputes(w) ==
    /\ writers[w].pc = "loop"
    /\ writers[w].nb_of_element < Len(writers[w].to_compute)
    /\ \E r \in {WriterOutcome(w)} :
          /\ r.exc = ""
          /\ writers' = [writers EXCEPT
                            ![w].values = r.values,
                            ![w].nb_of_element =
                                writers[w].nb_of_element + 1]
          /\ disk' = PeriodicCommit(writers[w].database,
                                    writers[w].nb_of_element + 1,
                                    writers[w].one_half_per_cent,
                                    r.Z, r.Value, disk)
    /\ UNCHANGED <<function, requests, passVars, isfile, Z, Value,
                   arithVars, drawVars>>

\* one iteration in which an exception escapes: compute raises in w
WriterRaises(w) ==
    /\ writers[w].pc = "loop"
    /\ writers[w].nb_of_element < Len(writers[w].to_compute)
    /\ \E r \in {WriterOutcome(w)} :
          /\ r.exc # ""
          /\ writers' = [writers EXCEPT ![w].pc = "aborted"]
    /\ UNCHANGED <<function, requests, passVars, storeVars, arithVars,
                   drawVars>>

\* the end of compute in the process w
WriterFinishes(w) ==
    /\ writers[w].pc = "loop"
    /\ writers[w].nb_of_element = Len(writers[w].to_compute)
    /\ writers' = [writers EXCEPT ![w].pc = "done"]
    /\ disk' = FinalCommit(writers[w].database, disk.Z, disk.Value, disk)
    /\ UNCHANGED <<function, requests, passVars, isfile, Z, Value,
                   arithVars, drawVars>>

InitWriters == InitPasses(Functions, WriterRequests) /\ InitNoExpression
NextWriters ==
    \E w \in Writers :
       \/ \E req \in WriterRequests, scan \in {"ascending", "descending"} :
             WriterStarts(w, req, scan)
       \/ WriterComputes(w)
       \/ WriterRaises(w)
       \/ WriterFinishes(w)
SpecWriters == InitWriters /\ [][NextWriters]_vars

---------------------------------------------------------------------------
(* The arithmetic expressions  lhs op rhs                                  *)

Components == {<<n, 1>> : n \in -MaxComponent..MaxComponent} \cup {Half}

RiemannSphereValues ==
    {Finite(re, im) : re \in Components, im \in Components} \cup {INFTY}

ScalarOperands ==
    {Scalar("int", <<n, 1>>) : n \in -1..1}
    \cup {Scalar("float", Zero), Scalar("float", Half),
          Scalar("complex", Zero), Scalar("Fraction", Zero),
          Scalar("Fraction", Half)}

Operands == {RS(v) : v \in RiemannSphereValues} \cup ScalarOperands

BinaryOperators == {"+", "-", "*", "/", "**"}
UnaryOperators == {"inverse", "neg", "conjugate", "exp", "log"}

\* the evaluation of the expression: a binary operator on lhs and rhs, a
\* method of lhs, the constructor on the arguments lhs, the hashes of lhs
\* and rhs
Operation(o, l, r) ==
    CASE o \in BinaryOperators -> BinaryOp(o, l, r)
      [] o = "inverse" -> inverse(l.val)
      [] o = "neg" -> __neg__(l.val)
      [] o = "conjugate" -> conjugate(l.val)
      [] o = "exp" -> complex_exp(l.val)
      [] o = "log" -> complex_log(l.val)
      [] o = "construct" -> RiemannSphere(l.real, l.imaginary, l.infinite)
      [] o = "hash" -> [exc |-> "", left |-> __hash__(l.val),
                        right |-> __hash__(r.val)]

\* the expression is not evaluated yet
Pending == Raise("pending")

\* an expression  lhs o rhs  with o in ops, not evaluated yet
InitExpression(ops, ls, rs) ==
    /\ InitPasses({"identity"}, {})
    /\ op \in ops
    /\ lhs \in ls
    /\ rhs \in rs
    /\ result = Pending
    /\ steps = 0

\* a binary expression has a RiemannSphere on one side at least
InitArith ==
    /\ InitExpression(BinaryOperators, Operands, Operands)
    /\ isinstance(lhs, {"RiemannSphere"}) \/ isinstance(rhs, {"RiemannSphere"})

\* the evaluation of the expression
Evaluate ==
    /\ result = Pending
    /\ result' = Operation(op, lhs, rhs)
    /\ UNCHANGED <<writers, function, requests, passVars, storeVars, lhs, rhs, op,
                   steps, drawVars>>

NextArith == Evaluate

\* the evaluation of a function of Color.py on lhs: HSL(lhs), RGB(lhs), the
\* part of RGB that follows its call of HSL on the triple lhs, or approx(lhs)
ColorOperation(o, l) ==
    CASE o = "HSL" -> HSL(l)
      [] o = "RGB" -> RGB(l)
      [] o = "HSLtoRGB" -> [exc |-> "",
                            val |-> HSLtoRGB(l.hue, l.saturation,
                                             l.lightness)]
      [] o = "approx" -> [exc |-> "", val |-> approx(l.val.real)]

EvaluateColor ==
    /\ result = Pending
    /\ result' = ColorOperation(op, lhs)
    /\ UNCHANGED <<writers, function, requests, passVars, storeVars, lhs, rhs, op,
                   steps, drawVars>>

NextColor == EvaluateColor
SpecArith == InitArith /\ [][NextArith]_vars

\* a number whose square underflows, and one whose square does not
Tiny == <<1, FloatMinDenominator>>
Small == <<1, 64>>
\* a number whose square overflows, and one too large for a float
Big == <<FloatMax, 1>>
Huge == <<2 * FloatMax, 1>>

\* the methods of one value
SmallValues ==
    {Finite(re, im) : re \in {Zero, Tiny, Small, FNeg(Tiny)},
                      im \in {Zero, Tiny, FNeg(Small)}}

InitUnary ==
    /\ InitExpression(UnaryOperators,
                      {RS(v) : v \in RiemannSphereValues \cup SmallValues},
                      {RS(INFTY)})
SpecUnary == InitUnary /\ [][NextArith]_vars

\* the calls of the constructor
ConstructorComponents ==
    {Zero, One, FNeg(One), Half, Tiny, Big, FNeg(Big), Huge, NaN, NonNumeric,
     <<MaxComponent, 1>>}

ConstructorArguments ==
    [real : ConstructorComponents, imaginary : ConstructorComponents,
     infinite : BOOLEAN]

InitConstruct ==
    InitExpression({"construct"}, ConstructorArguments, {RS(INFTY)})
SpecConstruct == InitConstruct /\ [][NextArith]_vars

\* the hashes of two values
InitHash ==
    InitExpression({"hash"}, {RS(v) : v \in RiemannSphereValues},
                   {RS(v) : v \in RiemannSphereValues})
SpecHash == InitHash /\ [][NextArith]_vars

\* the colour of a value
InitColor ==
    InitExpression({"HSL"},
                   {RS(v) : v \in RiemannSphereValues \cup SmallValues}
                       \cup ScalarOperands,
                   {RS(INFTY)})
SpecColor == InitColor /\ [][NextColor]_vars

\* the calls of approx
ApproxArguments ==
    {Fraction(n, d) : n \in -MaxApprox..MaxApprox, d \in {1, 2, 4}}

InitApprox ==
    InitExpression({"approx"}, {Scalar("float", f) : f \in ApproxArguments},
                   {RS(INFTY)})
SpecApprox == InitApprox /\ [][NextColor]_vars

\* the triples that HSL returns: a hue in degrees, the saturation 1 and a
\* lightness between 0 and 1
HSLTriples ==
    [hue : 0..360, saturation : {1},
     lightness : {Fraction(k, 8) : k \in 0..8} \cup {<<1, 3>>, <<1, 255>>}]

\* the colour of a value, and the colour of a triple
InitRGB ==
    \/ InitExpression({"RGB"}, {RS(v) : v \in RiemannSphereValues},
                      {RS(INFTY)})
    \/ InitExpression({"HSLtoRGB"}, HSLTriples, {RS(INFTY)})
SpecRGB == InitRGB /\ [][NextColor]_vars

\* the values that the constructor returns
ChainComponents == {Zero, One, FNeg(One), Half, <<MaxComponent, 1>>, Big, NaN}

ConstructedValues ==
    {RiemannSphere(real, imaginary, infinite).val :
        <<real, imaginary, infinite>> \in
            {t \in ChainComponents \X ChainComponents \X BOOLEAN :
                RiemannSphere(t[1], t[2], t[3]).exc = ""}}

\* the other operands of the chained operations
ChainOperands ==
    {RS(Finite(Zero, Zero)), RS(Finite(One, One)), RS(Finite(Half, Zero)),
     RS(INFTY), Scalar("int", Zero), Scalar("int", <<2, 1>>),
     Scalar("float", Half)}

\* a method takes no other operand
OtherOperands(o) == IF o \in UnaryOperators THEN {RS(INFTY)} ELSE ChainOperands

\* a value whose components are small enough to be an operand of the next
\* operation
IsChained(v) ==
    \/ is_infinite(v)
    \/ /\ Abs(v.real[1]) <= MaxChainNumerator
       /\ Abs(v.imaginary[1]) <= MaxChainNumerator
       /\ v.real[2] <= MaxChainDenominator
       /\ v.imaginary[2] <= MaxChainDenominator

InitChain ==
    /\ InitExpression(BinaryOperators \cup UnaryOperators,
                      {RS(v) : v \in ConstructedValues}, ChainOperands)
    /\ rhs \in OtherOperands(op)

\* the value of the expression is the left or the right operand of a next
\* operation
Continue ==
    /\ result # Pending
    /\ result.exc = ""
    /\ IsChained(result.val)
    /\ steps < MaxOps
    /\ steps' = steps + 1
    /\ op' \in BinaryOperators \cup UnaryOperators
    /\ \/ lhs' = RS(result.val) /\ rhs' \in OtherOperands(op')
       \/ /\ op' \in BinaryOperators
          /\ rhs' = RS(result.val)
          /\ lhs' \in ChainOperands
    /\ result' = Pending
    /\ UNCHANGED <<writers, function, requests, passVars, storeVars, drawVars>>

NextChain == Evaluate \/ Continue
SpecChain == InitChain /\ [][NextChain]_vars

---------------------------------------------------------------------------
(* Vocabulary of the properties                                            *)

CurrentRequest == Request(left_below, right_upper, resolution, database)

Range(seq) == {seq[k] : k \in 1..Len(seq)}

\* the grid points of the current pass
GridPoints ==
    {<<liste_x[i], liste_y[j]>> : i \in 1..Len(liste_x), j \in 1..Len(liste_y)}

\* what the supplied function does at the grid point p
Outcome(p) == Apply(function, Finite(p[1], p[2]))

\* the Z row denotes the point (x, y): real / multiplier = x and
\* imaginary / multiplier = y, as equalities of rationals
Denotes(row, x, y) ==
    /\ row.real * denominator(x) = numerator(x) * row.multiplier
    /\ row.imaginary * denominator(y) = numerator(y) * row.multiplier

\* the value a Value row stands for
StoredValue(row) ==
    IF row.infinite = 1 THEN INFTY ELSE Finite(row.real, row.imaginary)

\* a pass has started on a store that an earlier pass over the same
\* rectangle at the same resolution has filled
SecondPass ==
    pc = "loop" /\ database # "" /\ CurrentRequest \in completed

---------------------------------------------------------------------------
(* C1 - cache reuse *)

\* C1 as stated: a second compute over the same rectangle and resolution
\* against the same store has an empty to-compute list and calls the
\* supplied function zero times, whatever the function.
C1_SecondPassEvaluatesNothing ==
    SecondPass => to_compute = <<>> /\ called = {}

\* C1 amended: a second compute over the same rectangle and resolution
\* against the same store evaluates the function exactly at the grid points
\* where it raised ValueError (they have no record), and at no point when the
\* function raised at none.
C1_SecondPassEvaluatesOnlyFailedPoints ==
    SecondPass =>
        /\ Range(to_compute) = {p \in GridPoints : Outcome(p).exc = "ValueError"}
        /\ called \subseteq Range(to_compute)

\* a second pass over a grid of several points, all resolved from the store
C1_Witness ==
    /\ SecondPass
    /\ to_compute = <<>>
    /\ Cardinality(DOMAIN values) >= 4
    /\ Cardinality(DOMAIN values) = Cardinality(GridPoints)

---------------------------------------------------------------------------
(* C2 - incremental reuse across resolutions *)

\* C2: a pass against a store evaluates the function exactly at the grid
\* points whose mathematical point has no record in the store, and takes the
\* value of every other grid point from the store, at the pixel index of
\* that point in the new grid.
C2_IncrementalReuse ==
    /\ (pc = "loop" /\ nb_of_element = 0 /\ database # "") =>
          \A i \in 1..Len(liste_x), j \in 1..Len(liste_y) :
             LET recs == {id \in 1..Len(Z) :
                             Denotes(Z[id], liste_x[i], liste_y[j])}
             IN  IF recs = {}
                 THEN /\ <<liste_x[i], liste_y[j]>> \in Range(to_compute)
                      /\ <<i - 1, j - 1>> \notin DOMAIN values
                 ELSE /\ <<liste_x[i], liste_y[j]>> \notin Range(to_compute)
                      /\ <<i - 1, j - 1>> \in DOMAIN values
                      /\ \E id \in recs :
                            values[<<i - 1, j - 1>>] = StoredValue(Value[id])
    /\ (pc = "done" /\ database # "") => called = Range(to_compute)

\* a pass at another resolution than the pass that filled the store, with
\* points taken from the store and points to evaluate
C2_Witness ==
    /\ pc = "loop" /\ nb_of_element = 0 /\ database # ""
    /\ completed # {}
    /\ \A req \in completed : req.resolution # resolution
    /\ DOMAIN values # {}
    /\ to_compute # <<>>
    /\ \E p \in DOMAIN values : p[1] > 0

---------------------------------------------------------------------------
(* C3 - canonical cache keys *)

\* the denominator of q in lowest terms
ReducedDenominator(q) == denominator(q) \div gcd(numerator(q), denominator(q))

\* C3: a grid coordinate denotes the point of a record made at any
\* resolution if and only if it reduces to the record's triple; the
\* multiplier is the lcm of the reduced denominators; the key of the lookup
\* (TMP) and the key of the insertion (Z) are the same triple.
C3_CanonicalKey ==
    \A p \in GridPoints :
        LET key == TmpKey(p[1], p[2])
            dx == ReducedDenominator(p[1])
            dy == ReducedDenominator(p[2])
        IN  /\ key.multiplier = (dx * dy) \div gcd(dx, dy)
            /\ KeyColumns(key) = KeyColumns(ZKey(Finite(p[1], p[2])))
            /\ \A id \in 1..Len(Z) :
                  Denotes(Z[id], p[1], p[2])
                      <=> KeyColumns(Z[id]) = KeyColumns(key)

\* at resolution 4, over a store filled at resolution 2 alone, a grid point
\* with a half-integer coordinate meets its record
C3_Witness ==
    /\ pc = "loop" /\ nb_of_element = 0 /\ passes = 2
    /\ resolution = 4
    /\ completed # {} /\ \A req \in completed : req.resolution = 2
    /\ \E p \in GridPoints, id \in 1..Len(Z) :
          /\ Z[id].multiplier = 2
          /\ Denotes(Z[id], p[1], p[2])

---------------------------------------------------------------------------
(* C4 - partial-failure tolerance *)

\* C4: a ValueError of the function at some grid points never aborts
\* compute, and the map returned has an entry for exactly the grid points
\* where the function did not raise.
C4_PartialFailure ==
    /\ pc = "aborted" =>
          \E p \in called : Outcome(p).exc \notin {"", "ValueError"}
    /\ pc = "done" =>
          /\ \A i \in 1..Len(liste_x), j \in 1..Len(liste_y) :
                <<i - 1, j - 1>> \in DOMAIN values
                    <=> Outcome(<<liste_x[i], liste_y[j]>>).exc = ""
          /\ \A pixel \in DOMAIN values :
                /\ pixel[1] \in 0..(Len(liste_x) - 1)
                /\ pixel[2] \in 0..(Len(liste_y) - 1)

\* compute has returned a map with holes at the failing points only
C4_Witness ==
    /\ pc = "done"
    /\ \E p \in GridPoints : Outcome(p).exc = "ValueError"
    /\ \E p \in GridPoints : Outcome(p).exc = ""
    /\ DOMAIN values # {}
    /\ Cardinality(DOMAIN values) < Cardinality(GridPoints)

---------------------------------------------------------------------------
(* C5 - grid enumeration *)

\* the number of grid coordinates between lower and upper
GridLength(lower, upper) ==
    int(FMul(FSub(upper, lower), FromInt(resolution))) + 1

\* the function raises at no point of the rectangle's grid
NeverFails ==
    \A i \in 0..(GridLength(left_below.real, right_upper.real) - 1),
       j \in 0..(GridLength(left_below.imaginary, right_upper.imaginary) - 1) :
        Apply(function,
              Finite(FAdd(left_below.real, Fraction(i, resolution)),
                     FAdd(left_below.imaginary, Fraction(j, resolution)))).exc
            = ""

\* dic_th of the doctest of the class
DoctestValues ==
    [pixel \in (0..2) \X (0..4) |->
        Finite(Fraction(pixel[1], 2), Fraction(pixel[2], 2))]

\* C5: without persistence and with a function that never fails, compute
\* returns a map whose keys are the pixels (i, j), 0 <= i < W, 0 <= j < H,
\* and whose value at (i, j) is the function at
\* (a + i/resolution) + (c + j/resolution) i; the identity on [0, 1 + 2i] at
\* resolution 2 gives the 15 entries of the doctest.
C5_GridEnumeration ==
    /\ (pc = "done" /\ database = "" /\ NeverFails) =>
          LET W == GridLength(left_below.real, right_upper.real)
              H == GridLength(left_below.imaginary, right_upper.imaginary)
          IN  /\ DOMAIN values = (0..(W - 1)) \X (0..(H - 1))
              /\ \A pixel \in DOMAIN values :
                    values[pixel] =
                        Apply(function,
                              Finite(FAdd(left_below.real,
                                          Fraction(pixel[1], resolution)),
                                     FAdd(left_below.imaginary,
                                          Fraction(pixel[2], resolution)))).val
    /\ (pc = "done" /\ CurrentRequest = DoctestRequest
            /\ function = "identity") =>
          /\ Cardinality(DOMAIN values) = 15
          /\ values = DoctestValues

\* the doctest's pass has returned
C5_Witness ==
    /\ pc = "done"
    /\ CurrentRequest = DoctestRequest
    /\ function = "identity"
    /\ Cardinality(DOMAIN values) = 15

---------------------------------------------------------------------------
(* C6 - the corners of the grid *)

\* consecutive coordinates of the list are exactly 1/resolution apart
EvenlySpaced(liste) ==
    \A i \in 1..(Len(liste) - 1) :
        FSub(liste[i + 1], liste[i]) = Fraction(1, resolution)

\* C6 as stated: for every request the lists start at lowerLeft's parts, end
\* at upperRight's parts and are spaced by 1/resolution.
C6_GridReachesBothCorners ==
    pc # "idle" =>
        /\ Len(liste_x) >= 1 /\ Len(liste_y) >= 1
        /\ liste_x[1] = left_below.real
        /\ liste_y[1] = left_below.imaginary
        /\ liste_x[Len(liste_x)] = right_upper.real
        /\ liste_y[Len(liste_y)] = right_upper.imaginary
        /\ EvenlySpaced(liste_x) /\ EvenlySpaced(liste_y)

\* the list starts at lower, is spaced by 1/resolution, and ends at the last
\* such coordinate that does not exceed upper: at upper itself exactly when
\* (upper - lower) * resolution is an integer
StartsAtLowerEndsBelowUpper(liste, lower, upper) ==
    /\ Len(liste) >= 1
    /\ liste[1] = lower
    /\ EvenlySpaced(liste)
    /\ FLeq(liste[Len(liste)], upper)
    /\ FLess(upper, FAdd(liste[Len(liste)], Fraction(1, resolution)))
    /\ liste[Len(liste)] = upper
          <=> denominator(FMul(FSub(upper, lower), FromInt(resolution))) = 1

\* C6 amended: for every request whose upperRight is not below or left of
\* its lowerLeft, the lists start at lowerLeft's parts, are spaced by
\* 1/resolution and end at the largest coordinate not beyond upperRight's
\* parts, which is upperRight's part exactly when the side times the
\* resolution is an integer.
C6_GridStartsAtLowerLeft ==
    (/\ pc # "idle"
     /\ FLeq(left_below.real, right_upper.real)
     /\ FLeq(left_below.imaginary, right_upper.imaginary)) =>
        /\ StartsAtLowerEndsBelowUpper(liste_x, left_below.real,
                                       right_upper.real)
        /\ StartsAtLowerEndsBelowUpper(liste_y, left_below.imaginary,
                                       right_upper.imaginary)
        /\ size = <<Len(liste_x), Len(liste_y)>>

\* a grid of several columns that stops short of the upper right corner
C6_Witness ==
    /\ pc # "idle"
    /\ FLeq(left_below.real, right_upper.real)
    /\ Len(liste_x) >= 2
    /\ FLess(liste_x[Len(liste_x)], right_upper.real)

---------------------------------------------------------------------------
(* C7 - one record per point *)

NoDuplicateKey(table) ==
    \A id1, id2 \in 1..Len(table) :
        KeyColumns(table[id1]) = KeyColumns(table[id2]) => id1 = id2

\* C7: after any sequence of passes of a single writer the store holds at
\* most one record per cache key.
C7_OneRecordPerPoint ==
    /\ NoDuplicateKey(Z)
    /\ NoDuplicateKey(disk.Z)
    /\ \A id1, id2 \in 1..Len(Z) :
          (\E p \in GridPoints :
              Denotes(Z[id1], p[1], p[2]) /\ Denotes(Z[id2], p[1], p[2]))
          => id1 = id2

\* a later pass has found some of its points in the store and has recorded
\* the others
C7_Witness ==
    /\ pc = "done" /\ database # "" /\ passes >= 2
    /\ called # {}
    /\ Cardinality(DOMAIN values) > Cardinality(called)
    /\ Len(disk.Z) >= Cardinality(DOMAIN values)

---------------------------------------------------------------------------
(* C8 - the final commit *)

\* C8: whenever compute returns with persistence enabled, every record
\* appended during the pass is committed, whatever the number of points and
\* the granularity of the periodic commit.
C8_FinalCommit ==
    (pc = "done" /\ database # "") =>
        /\ disk.Z = Z
        /\ disk.Value = Value
        /\ Len(disk.Z) = Len(disk.Value)

\* the pass over 401 points has returned: its granularity is 2, and its last
\* record was appended after the last periodic commit
C8_Witness ==
    /\ pc = "done" /\ database # ""
    /\ one_half_per_cent > 1
    /\ Len(to_compute) % one_half_per_cent # 0
    /\ Len(Z) >= Len(to_compute) - 1
    /\ Outcome(to_compute[Len(to_compute)]).exc = ""

---------------------------------------------------------------------------
(* C9 - order independence *)

\* the pixels of the points of the to-compute list
ToComputePixels ==
    {<<index(liste_x, p[1]), index(liste_y, p[2])>> : p \in Range(to_compute)}

\* the dictionary compute's loop builds from vals when it takes the points
\* of to_compute from the k-th on in the order of the list
RECURSIVE LoopInListOrder(_, _)
LoopInListOrder(k, vals) ==
    IF k > Len(to_compute) THEN vals
    ELSE LoopInListOrder(k + 1,
            compute_a_value(function, "", Finite(to_compute[k][1],
                                                 to_compute[k][2]),
                            <<index(liste_x, to_compute[k][1]),
                              index(liste_y, to_compute[k][2])>>,
                            vals, <<>>, <<>>).values)

\* C9: the map compute returns is the same for every order in which the
\* to-compute points are evaluated: it is the map of the order of the list.
C9_OrderIndependence ==
    pc = "done" =>
        values = LoopInListOrder(1,
                    [pixel \in (DOMAIN values) \ ToComputePixels |->
                        values[pixel]])

\* a pass of three points or more has returned after evaluating the last
\* point of its list first
C9_Witness ==
    /\ pc = "done" /\ database # "" /\ passes = 1
    /\ function = "identity"
    /\ Len(to_compute) >= 3
    /\ Len(Z) = Len(to_compute)
    /\ KeyColumns(Z[1]) =
          KeyColumns(TmpKey(to_compute[Len(to_compute)][1],
                            to_compute[Len(to_compute)][2]))

---------------------------------------------------------------------------
(* C10 - infinity absorbs *)

IsRS(operand) == isinstance(operand, {"RiemannSphere"})
IsFiniteRS(operand) == IsRS(operand) /\ ~is_infinite(operand.val)
IsInfiniteRS(operand) == IsRS(operand) /\ is_infinite(operand.val)
IsNonZeroRS(operand) == IsRS(operand) /\ ~is_null(operand.val)

ResultIsInfinite == result.exc = "" /\ __eq__(result.val, RS(INFTY))

\* C10: z + Infinite, Infinite + z, z - Infinite and Infinite - z are
\* Infinite for every Finite z, Infinite + Infinite is Infinite, and
\* Infinite * w and w * Infinite are Infinite for every non-zero w, Finite
\* or Infinite.
C10_InfinityAbsorbs ==
    result # Pending =>
        /\ (/\ op \in {"+", "-"}
            /\ \/ IsFiniteRS(lhs) /\ IsInfiniteRS(rhs)
               \/ IsInfiniteRS(lhs) /\ IsFiniteRS(rhs)) => ResultIsInfinite
        /\ (op = "+" /\ IsInfiniteRS(lhs) /\ IsInfiniteRS(rhs))
              => ResultIsInfinite
        /\ (/\ op = "*"
            /\ \/ IsInfiniteRS(lhs) /\ IsNonZeroRS(rhs)
               \/ IsNonZeroRS(lhs) /\ IsInfiniteRS(rhs)) => ResultIsInfinite

\* a non-zero Finite value times Infinite has been evaluated
C10_Witness ==
    /\ result # Pending
    /\ op = "*"
    /\ IsFiniteRS(lhs) /\ IsNonZeroRS(lhs) /\ IsInfiniteRS(rhs)
    /\ ResultIsInfinite

---------------------------------------------------------------------------
(* C11 - zero times Infinite is undefined *)

Evaluated == result.exc # "pending"

\* the Finite value 0 + 0i, or the scalar 0 or 0.0
IsZeroOperand(operand) ==
    \/ IsRS(operand) /\ is_null(operand.val)
    \/ isinstance(operand, {"int", "float"})
          /\ ScalarEq(operand.val.real, Zero)

RaisedValueError == result.exc = "ValueError" /\ result.val = NoValue

\* C11: Infinite * zero and zero * Infinite raise ValueError and return no
\* value, whether zero is the Finite value 0 + 0i or the scalar 0 or 0.0.
C11_ZeroTimesInfinite ==
    (/\ Evaluated
     /\ op = "*"
     /\ \/ IsInfiniteRS(lhs) /\ IsZeroOperand(rhs)
        \/ IsZeroOperand(lhs) /\ IsInfiniteRS(rhs)) => RaisedValueError

\* the scalar 0.0 times Infinite has been evaluated and has raised
C11_Witness ==
    /\ Evaluated
    /\ op = "*"
    /\ lhs = Scalar("float", Zero) /\ IsInfiniteRS(rhs)
    /\ RaisedValueError

---------------------------------------------------------------------------
(* C12 - inverse *)

NoException == result.exc = ""

\* C12: z.inverse() raises on no value; it is the Finite value 0 + 0i for
\* the Infinite z and Infinite for the Finite z = 0 + 0i.
C12_InverseSwapsZeroAndInfinity ==
    (Evaluated /\ op = "inverse") =>
        /\ NoException
        /\ is_infinite(lhs.val) => result.val = Finite(Zero, Zero)
        /\ is_null(lhs.val) => result.val = INFTY

---------------------------------------------------------------------------
(* C13 - division *)

\* a RiemannSphere, an int, a float or a Fraction
IsDividend(operand) ==
    isinstance(operand, {"RiemannSphere", "int", "float", "Fraction"})

\* the Finite value 0 + 0i, or a scalar equal to 0
IsZeroDivisor(operand) ==
    \/ IsRS(operand) /\ is_null(operand.val)
    \/ isinstance(operand, {"int", "float", "Fraction"})
          /\ ScalarEq(operand.val.real, Zero)

ResultIsFiniteZero ==
    NoException /\ ~is_infinite(result.val) /\ is_null(result.val)

\* C13: for every dividend z, Finite or Infinite or a numeric scalar,
\* z divided by the Finite value 0 + 0i or by the scalar 0 raises
\* ValueError, and z divided by Infinite is the Finite value 0 + 0i.
C13_Division ==
    (Evaluated /\ op = "/" /\ IsDividend(lhs)) =>
        /\ IsZeroDivisor(rhs) => RaisedValueError
        /\ IsInfiniteRS(rhs) => ResultIsFiniteZero

---------------------------------------------------------------------------
(* C14 - powers of zero *)

\* an exponent other than zero: an int, a float or a RiemannSphere
IsNonZeroExponent(operand) ==
    \/ IsRS(operand) /\ ~is_null(operand.val)
    \/ isinstance(operand, {"int", "float"})
          /\ ~ScalarEq(operand.val.real, Zero)

\* C14: the Finite value 0 + 0i raised to any non-zero exponent, int, float
\* or RiemannSphere, raises ValueError, and so does the scalar 0 raised to
\* a RiemannSphere exponent.
C14_PowerOfZero ==
    (Evaluated /\ op = "**" /\ IsZeroOperand(lhs)
        /\ IsNonZeroExponent(rhs)) => RaisedValueError

---------------------------------------------------------------------------
(* C15 - powers of Infinite *)

\* C15: Infinite raised to the int 0, the float 0.0 or the Finite value
\* 0 + 0i raises ValueError, and Infinite raised to any non-zero exponent,
\* an int of either sign, a float or a RiemannSphere, is Infinite.
C15_PowerOfInfinite ==
    (Evaluated /\ op = "**" /\ IsInfiniteRS(lhs)) =>
        /\ IsZeroOperand(rhs) => RaisedValueError
        /\ IsNonZeroExponent(rhs) => ResultIsInfinite

---------------------------------------------------------------------------
(* C16 - the contract of the constructor *)

Constructed == Evaluated /\ op = "construct"

RaisedError(e) == result.exc = e /\ result.val = NoValue

\* the exception that the test of one component raises: offending tells
\* whether a number of that value is refused
ComponentError(c, offending) ==
    IF ~isnumeric(c) THEN "TypeError"
    ELSE IF overflows(c) THEN "OverflowError"
    ELSE IF offending THEN "ValueError"
    ELSE ""

\* the exception of the first component, in the order real, imaginary,
\* whose test raises one
FirstError(real, imaginary, flag) ==
    LET e == ComponentError(real, isnan(real) # flag)
    IN  IF e # "" THEN e
        ELSE ComponentError(imaginary, isnan(imaginary) # flag)

---------------------------------------------------------------------------
(* C17 - the representation of the values *)

\* infinite holds exactly when both components are NaN
WellFormed(v) == v.infinite <=> (isnan(v.real) /\ isnan(v.imaginary))

AllValuesWellFormed ==
    /\ IsRS(lhs) => WellFormed(lhs.val)
    /\ IsRS(rhs) => WellFormed(rhs.val)
    /\ (Evaluated /\ NoException) => WellFormed(result.val)
    /\ WellFormed(INFTY)

\* the evaluation of an operation leaves its operands as they are
OperandsKept == (result = Pending /\ result' # Pending) =>
                    (lhs' = lhs /\ rhs' = rhs)

\* C17: every value that the constructor and any sequence of operations
\* (add, subtract, multiply, divide, power, inverse, negate, conjugate, exp,
\* log) reach, the shared INFTY included, has infinite = True if and only
\* if both components are NaN, and no operation changes an operand.
C17_RepresentationInvariant == []AllValuesWellFormed /\ [][OperandsKept]_vars

\* a second operation has returned Infinite from a Finite value that a
\* first operation returned
C17_Witness ==
    /\ steps >= 1
    /\ Evaluated /\ NoException
    /\ IsFiniteRS(lhs)
    /\ is_infinite(result.val)
    /\ AllValuesWellFormed

---------------------------------------------------------------------------
(* C18 - overflow absorption *)

\* real**2 + imaginary**2 is beyond the largest floating point number:
\* between the squares of the integer parts a, b of the components and those
\* of a + 1, b + 1
SquaredModulusOverflows(real, imaginary) ==
    LET a == int(FAbs(real))
        b == int(FAbs(imaginary))
    IN  \/ a * a + b * b > FloatMax
        \/ /\ (a + 1) * (a + 1) + (b + 1) * (b + 1) > FloatMax
           /\ FLess(<<FloatMax, 1>>,
                    FAdd(FMul(real, real), FMul(imaginary, imaginary)))

\* C18: for every pair of numeric components other than NaN, the
\* construction of a Finite value raises nothing; it gives Infinite exactly
\* when real**2 + imaginary**2 is not a finite floating point number, and
\* the Finite value of these components otherwise.
C18_OverflowAbsorption ==
    (/\ Constructed
     /\ ~lhs.infinite
     /\ isnumeric(lhs.real) /\ ~isnan(lhs.real)
     /\ isnumeric(lhs.imaginary) /\ ~isnan(lhs.imaginary)) =>
        /\ NoException
        /\ IF SquaredModulusOverflows(lhs.real, lhs.imaginary)
           THEN result.val = INFTY
           ELSE result.val = Finite(lhs.real, lhs.imaginary)

---------------------------------------------------------------------------
(* C19 - the hash *)

\* C19: hash(a) is an integer for every value a, Finite or Infinite, and
\* a == b implies hash(a) == hash(b); all Infinite values are equal and
\* have the same hash.
C19_HashConsistentWithEquality ==
    (Evaluated /\ op = "hash") =>
        /\ result.left.exc = "" /\ result.right.exc = ""
        /\ __eq__(lhs.val, rhs) => result.left.val = result.right.val
        /\ (IsInfiniteRS(lhs) /\ IsInfiniteRS(rhs)) => __eq__(lhs.val, rhs)

---------------------------------------------------------------------------
(* C20 - the range of HSL *)

Coloured == Evaluated /\ op = "HSL" /\ IsRS(lhs)

hue == result.val[1]
saturation == result.val[2]
lightness == result.val[3]

\* 0 < lightness < 1
LightnessIsInside == FLess(Zero, lightness) /\ FLess(lightness, One)

---------------------------------------------------------------------------
(* C21 - the rounding of approx *)

Rounded == Evaluated /\ op = "approx"

\* the argument of approx
ApproxArgument == lhs.val.real

\* the result is an integer at most 1/2 away from f
IsNearestInteger ==
    /\ result.val \in Int
    /\ FLeq(FAbs(FSub(FromInt(result.val), ApproxArgument)), Half)

\* C21 as stated: approx(f) is an integer with |approx(f) - f| <= 1/2, and
\* on exact halves it is 2 for 2.5 and -3 for -2.5.
C21_RoundingRule ==
    Rounded =>
        /\ IsNearestInteger
        /\ ApproxArgument = <<5, 2>> => result.val = 2
        /\ ApproxArgument = <<-5, 2>> => result.val = -3

\* C21, amended: approx(f) is an integer with |approx(f) - f| <= 1/2, and
\* on an exact half it is the neighbour nearer to zero: 2 for 2.5 and -2
\* for -2.5.
C21_RoundingHalfTowardZero ==
    Rounded =>
        /\ IsNearestInteger
        /\ ApproxArgument[2] = 2
              => Abs(2 * result.val) < Abs(ApproxArgument[1])
        /\ ApproxArgument = <<5, 2>> => result.val = 2
        /\ ApproxArgument = <<-5, 2>> => result.val = -2

\* approx(-2.5) has been evaluated and is -2
C21_Witness == Rounded /\ ApproxArgument = <<-5, 2>> /\ result.val = -2

---------------------------------------------------------------------------
(* C22 - from HSL to RGB *)

\* the hue, saturation and lightness that RGB converts
Converted ==
    IF op = "RGB" THEN [hue |-> HSL(lhs).val[1],
                        saturation |-> HSL(lhs).val[2],
                        lightness |-> HSL(lhs).val[3]]
    ELSE lhs

\* C = 1 - |2L - 1|
Chroma == FSub(One, FAbs(FSub(FMul(<<2, 1>>, Converted.lightness), One)))

\* X = C (1 - |(hue / 60) mod 2 - 1|), with (hue / 60) mod 2 =
\* (hue mod 120) / 60
SecondLargest ==
    FMul(Chroma, FSub(One, FAbs(FSub(Fraction(Converted.hue % 120, 60), One))))

\* m = L - C / 2
Offset == FSub(Converted.lightness, FMul(Chroma, Half))

\* (R', G', B') by the sextant ceil(hue / 60), the hue 0 being in the
\* first one
Primes ==
    LET sextant == IF Converted.hue = 0 THEN 1
                   ELSE (Converted.hue + 59) \div 60
    IN  <<<<Chroma, SecondLargest, Zero>>, <<SecondLargest, Chroma, Zero>>,
          <<Zero, Chroma, SecondLargest>>, <<Zero, SecondLargest, Chroma>>,
          <<SecondLargest, Zero, Chroma>>, <<Chroma, Zero, SecondLargest>>
        >>[sextant]

\* approx((c + m) * 255)
Channel(c) == approx(FMul(FAdd(c, Offset), <<255, 1>>))

\* C22: for every integer hue in [0, 360), saturation 1 and lightness in
\* [0, 1], RGB returns (approx((R' + m) 255), approx((G' + m) 255),
\* approx((B' + m) 255)) with C = 1 - |2L - 1|, X = C (1 - |(hue / 60) mod
\* 2 - 1|), m = L - C / 2 and (R', G', B') chosen by the sextant
\* ceil(hue / 60); the hue 45 with the lightness 0.75 gives (255, 223, 127).
C22_HSLToRGB ==
    (/\ Evaluated /\ op \in {"RGB", "HSLtoRGB"}
     /\ NoException
     /\ Converted.hue \in 0..359) =>
        /\ result.val = <<Channel(Primes[1]), Channel(Primes[2]),
                          Channel(Primes[3])>>
        /\ (Converted.hue = 45 /\ Converted.lightness = <<3, 4>>)
              => result.val = <<255, 223, 127>>

\* the hue 45 with the lightness 0.75 has been converted
C22_Witness ==
    /\ Evaluated /\ op = "HSLtoRGB"
    /\ lhs.hue = 45 /\ lhs.saturation = 1 /\ lhs.lightness = <<3, 4>>
    /\ result.val = <<255, 223, 127>>

---------------------------------------------------------------------------
(* C23 - the vertical inversion of draw *)

Drawn == pc = "done" /\ img # NoImage

\* the key of values of the grid point shown by the pixel p
Inverted(p) == <<p[1], size[2] - 1 - p[2]>>

\* the grid rows, numbered from 0, whose imaginary coordinate is the largest
HighestRows ==
    {k \in 0..(Len(liste_y) - 1) :
        \A l \in 1..Len(liste_y) : ~FLess(liste_y[k + 1], liste_y[l])}

\* C23: for every pixel (i, j) with 0 <= i < width and 0 <= j < height whose
\* grid value is present, draw sets the pixel (i, j) of the image to
\* RGB(values[(i, height - 1 - j)]), so that the row 0 of the image shows the
\* grid row with the largest imaginary coordinate.
C23_VerticalInversion ==
    Drawn =>
        /\ DOMAIN img = (0..(size[1] - 1)) \X (0..(size[2] - 1))
        /\ \A p \in DOMAIN img :
              Inverted(p) \in DOMAIN values =>
                 /\ img[p] = RGB(RS(values[Inverted(p)])).val
                 /\ p[2] = 0 => Inverted(p)[2] \in HighestRows

\* an image of two rows has been drawn whose rows differ
C23_Witness ==
    /\ Drawn
    /\ size[2] = 2
    /\ <<0, 0>> \in DOMAIN values /\ <<0, 1>> \in DOMAIN values
    /\ img[<<0, 0>>] # img[<<0, 1>>]
    /\ img[<<0, 0>>] = RGB(RS(values[<<0, 1>>])).val

---------------------------------------------------------------------------
(* C24 - the holes of the pixel value map *)

\* the pixels of the image whose entry is missing in values
Holes == {p \in DOMAIN img : Inverted(p) \notin DOMAIN values}

\* the pixels for which draw emitted a diagnostic
Diagnosed == {p \in DOMAIN img : \E d \in diagnostics : d.coords = Inverted(p)}

---------------------------------------------------------------------------
(* C25 - the correlation of the Z table and the Value table *)

\* the point encoded by a Z row
ZPoint(row) ==
    Finite(Fraction(row.real, row.multiplier),
           Fraction(row.imaginary, row.multiplier))

\* the value that recover_datas builds from a Value row
Recovered(row) ==
    RiemannSphere(convert(row.real, row.imaginary, row.infinite)[1],
                  convert(row.real, row.imaginary, row.infinite)[2],
                  convert(row.real, row.imaginary, row.infinite)[3]).val

\* the tables have the same number of rows, and the Value row of every Id
\* holds the value of the function at the point of the Z row of that Id
Correlated(Zt, Vt) ==
    /\ Len(Zt) = Len(Vt)
    /\ \A id \in 1..Len(Zt) :
          /\ Apply(function, ZPoint(Zt[id])).exc = ""
          /\ Vt[id] = ValueRow(Apply(function, ZPoint(Zt[id])).val)

\* the grid point of a pixel
GridPoint(pixel) == Finite(liste_x[pixel[1] + 1], liste_y[pixel[2] + 1])

\* C25: after any sequence of compute passes of a single writer, passes in
\* which some points fail included, the Z table and the Value table have the
\* same number of rows, and for every Id the Value row holds the value of the
\* function at the point encoded by the Z row; the value that a pass holds
\* for a pixel, recovered or computed, is never the value of another point.
C25_ArgumentResultCorrelation ==
    /\ Correlated(Z, Value)
    /\ Correlated(disk.Z, disk.Value)
    /\ \A pixel \in DOMAIN values :
          /\ Apply(function, GridPoint(pixel)).exc = ""
          /\ values[pixel] \in
                {Apply(function, GridPoint(pixel)).val,
                 Recovered(ValueRow(Apply(function, GridPoint(pixel)).val))}

\* a second pass has recovered values from a store written by a pass in
\* which some points failed
C25_Witness ==
    /\ passes = 2 /\ pc = "loop" /\ nb_of_element = 0
    /\ function = "partial"
    /\ Len(disk.Z) >= 2 /\ Len(disk.Z) < Len(liste_x) * Len(liste_y)
    /\ Cardinality(DOMAIN values) >= 2
    /\ to_compute # <<>>

---------------------------------------------------------------------------
(* C26 - two passes on one store *)

\* the pairs of Ids of the Z table of the store that hold the same key
DuplicatedIds ==
    {ids \in (1..Len(disk.Z)) \X (1..Len(disk.Z)) :
        /\ ids[1] < ids[2]
        /\ KeyColumns(disk.Z[ids[1]]) = KeyColumns(disk.Z[ids[2]])}

\* the pixel of the point of a Z row in the grid of the process w
WriterPixel(w, row) ==
    <<index(writers[w].liste_x, ZPoint(row).real),
      index(writers[w].liste_y, ZPoint(row).imaginary)>>

\* the process w found the point of the row absent at its lookup, and has
\* computed and inserted it
AbsentThenInserted(w, row) ==
    /\ WriterPixel(w, row) \notin DOMAIN writers[w].recovered
    /\ WriterPixel(w, row) \in DOMAIN writers[w].values
    /\ \E k \in 1..writers[w].nb_of_element :
          writers[w].to_compute[k] = <<ZPoint(row).real, ZPoint(row).imaginary>>

\* C26: two compute passes that run against the same store and share a grid
\* point can duplicate its record: the store comes to hold two records of
\* one key, and it does so exactly when both passes found the point absent
\* at their lookup and both inserted it, the lookup and the insertion not
\* being one atomic step.
C26_ConcurrentWritersDuplicate ==
    /\ \A ids \in DuplicatedIds :
          \A w \in Writers : AbsentThenInserted(w, disk.Z[ids[1]])
    /\ \A id \in 1..Len(disk.Z) :
          (\A w \in Writers : AbsentThenInserted(w, disk.Z[id])) =>
             \E ids \in DuplicatedIds : id \in {ids[1], ids[2]}

\* both passes are done and the store holds two records of the point 0,
\* which both passes found absent and both inserted
C26_Witness ==
    /\ \A w \in Writers : writers[w].pc = "done"
    /\ \E ids \in DuplicatedIds :
          /\ ZPoint(disk.Z[ids[1]]) = Finite(Zero, Zero)
          /\ \A w \in Writers : AbsentThenInserted(w, disk.Z[ids[1]])
    /\ Len(disk.Z) = Len(disk.Value)

---------------------------------------------------------------------------
(* C27 - the point named by the diagnostic of a hole *)

\* the function raises the error of a point outside its domain at (x, y)
Fails(point) == Apply(function, Finite(point[1], point[2])).exc = "ValueError"

\* C27: for every rectangle, resolution and missing pixel, the point that
\* draw reports for the image pixel (i, j), which is lowerLeft.real +
\* i / resolution, upperRight.imaginary - j / resolution, is the grid point
\* (liste_x[i], liste_y[height - 1 - j]) whose value is missing, the point
\* that compute reported as failing for that pixel.
C27_DiagnosticNamesThePoint ==
    Drawn =>
        \A d \in diagnostics :
           /\ d.coords \notin DOMAIN values
           /\ d.z = GridPoint(d.coords)
           /\ Fails(<<d.z.real, d.z.imaginary>>)

---------------------------------------------------------------------------
(* C28 - a failed evaluation and the store *)

\* no row of the table is the record of a point at which the function fails
NoRecordOfFailure(Zt) ==
    \A id \in 1..Len(Zt) :
       ~Fails(<<ZPoint(Zt[id]).real, ZPoint(Zt[id]).imaginary>>)

\* the failing points of the grid are to be evaluated by the pass, and have
\* been when it is done
FailuresEvaluatedAgain ==
    \A point \in GridPoints :
       Fails(point) =>
          /\ pc = "loop" => \E k \in 1..Len(to_compute) : to_compute[k] = point
          /\ pc = "done" => point \in called

\* the iteration of the loop on a failing point adds no row and no value
FailedIterationAddsNothing ==
    (/\ pc = "loop"
     /\ nb_of_element < Len(to_compute)
     /\ nb_of_element' = nb_of_element + 1
     /\ Fails(to_compute[nb_of_element + 1])) =>
        /\ Z' = Z
        /\ Value' = Value
        /\ values' = values
        /\ Len(disk'.Z) = Len(Z) \/ disk' = disk

\* C28: when the function raises the domain error at a grid point, neither
\* a Z row nor a Value row is added for that point, so the point has no
\* record and is evaluated again on every later pass that covers it.
C28_FailureLeavesStoreUnchanged ==
    /\ [](NoRecordOfFailure(Z) /\ NoRecordOfFailure(disk.Z)
           /\ FailuresEvaluatedAgain)
    /\ [][FailedIterationAddsNothing]_vars

\* a second pass on a request that the first pass completed has evaluated
\* again the points that failed, which are all it had to compute, and has
\* added no row
C28_Witness ==
    /\ passes = 2 /\ pc = "done" /\ database # ""
    /\ to_compute # <<>>
    /\ \A k \in 1..Len(to_compute) :
          Fails(to_compute[k]) /\ to_compute[k] \in called
    /\ DOMAIN values # {}
    /\ Len(disk.Z) = Cardinality(DOMAIN values)

---------------------------------------------------------------------------
(* C29 - the round trip of the stored values *)

\* C29: a value recovered from the store by a later pass equals the value
\* the function returned when the record was written, an Infinite value
\* being recovered as Infinite and a Finite value as a Finite value with the
\* same components, so that the dictionary of a pass served from the store
\* is the one of the pass that computed it: every value a pass holds for a
\* pixel is the value of the function at its grid point.
C29_StoredValuesRoundTrip ==
    \A pixel \in DOMAIN values :
       Apply(function, GridPoint(pixel)).exc = "" =>
          values[pixel] = Apply(function, GridPoint(pixel)).val

---------------------------------------------------------------------------
(* C30 - integer powers *)

\* the product of n copies of z, which is 1 for n = 0
RECURSIVE ProductOfCopies(_, _)
ProductOfCopies(z, n) ==
    IF n = 0 THEN Return(Finite(One, Zero))
    ELSE IF ProductOfCopies(z, n - 1).exc # "" THEN ProductOfCopies(z, n - 1)
    ELSE __mul__(ProductOfCopies(z, n - 1).val, RS(z))

\* the int exponent of the expression
Exponent == int(rhs.val.real)

\* z ** (-n) for the exponent n of the expression
OppositePower == __pow__(lhs.val, Scalar("int", <<-Exponent, 1>>))

\* C30: for every Finite z and integer n >= 0, z ** n is the product of n
\* copies of z (z ** 0 being 1), and for every Finite non-zero z and integer
\* n < 0, z ** n is inverse(z ** (-n)), so that (z ** n) * (z ** (-n)) is 1.
C30_IntegerPowers ==
    (/\ Evaluated /\ op = "**"
     /\ IsRS(lhs) /\ ~is_infinite(lhs.val)
     /\ isinstance(rhs, {"int"})) =>
        /\ Exponent >= 0 => result = ProductOfCopies(lhs.val, Exponent)
        /\ (Exponent < 0 /\ ~is_null(lhs.val)) =>
              /\ NoException
              /\ OppositePower.exc = ""
              /\ inverse(OppositePower.val).exc = ""
              /\ __eq__(result.val, RS(inverse(OppositePower.val).val))
              /\ __mul__(result.val, RS(OppositePower.val)).exc = ""
              /\ __eq__(__mul__(result.val, RS(OppositePower.val)).val,
                        RS(Finite(One, Zero)))

====
